---- MODULE Spec2Model ----
(***************************************************************************)
(* packlist-simple: the checklist reducer, its localStorage persistence    *)
(* and the tap/drag gesture handlers of App, as a state machine.           *)
(*                                                                         *)
(* The template-screen variant (src/unnamed/part_000, lines 424-1343) is   *)
(* the one modelled; MOVE_ITEM exists only in the first variant of the     *)
(* same file (lines 1-422) and is modelled from there.                     *)
(*                                                                         *)
(* Strings are TLA+ strings, except item labels, which are sequences of    *)
(* one-character strings so that trim() and toLocaleLowerCase() compute.   *)
(* Item ids (UUID strings in the code) are positive integers.              *)
(***************************************************************************)
EXTENDS Integers, Sequences, FiniteSets, TLC

VARIABLES
  state,                \* useReducer state: the PackListState
  screen,               \* useState<Screen>: "template" | "checklist"
  openedFromChecklist,  \* useState(false): the template screen offers the way back
  storage,              \* localStorage[STORAGE_KEY], as the value JSON.parse gives
  clock,                \* the value Date.now() returns
  nextId,               \* the next id createId() returns
  pointerDragRef,       \* useRef: {pointerId, id, startX, startY, dragging}
  draggingId,           \* useState<string | null>
  isTrashNear,          \* useState(false)
  isTrashOver,          \* useState(false)
  suppressNextClickRef, \* useRef(false)
  timers,               \* number of pending setTimeout(..., 0) flag-clearing callbacks
  dnd,                  \* the browser's drag-and-drop: its phase and its 'text/plain' data
  last,                 \* history: the handler that ran last, its event and what it dispatched
  dragEnded             \* history: a drag has ended, and no click or new gesture has followed

vars == <<state, screen, openedFromChecklist, storage, clock, nextId, pointerDragRef,
          draggingId,
          isTrashNear, isTrashOver, suppressNextClickRef, timers, dnd,
          last, dragEnded>>

hostVars == <<state, screen, openedFromChecklist, storage, clock, nextId>>

gestureVars == <<pointerDragRef, draggingId, isTrashNear, isTrashOver,
                 suppressNextClickRef, timers, dnd>>

(***************************************************************************)
(* Bounds of the model.                                                    *)
(***************************************************************************)
\* the longest list: of a stored record, and that ADD_ITEM is tried on
MaxItems == 2

\* the largest value of Date.now()
MaxClock == 1

\* how many times createId() is called in a run
MaxFreshIds == 2

\* the longest template of the template-expansion specification
MaxTemplateLen == 3

\* how many flag-clearing timers may be pending at once
MaxTimers == 2

(***************************************************************************)
(* Values of the program.                                                  *)
(***************************************************************************)
\* null, where the code has a string (or id) or null
NULL == "<null>"

\* undefined: an absent optional property
UNDEFINED == "<undefined>"

\* null in the place of an item id or a pointer id
NoId == 0

DEFAULT_LIST_TITLE == "DEFAULT_LIST_TITLE"

\* the placeholder glyph, U+1F4E6
PLACEHOLDER_ICON == "package"

DRAG_THRESHOLD == 10

NEAR_RADIUS == 96

Max(a, b) == IF a >= b THEN a ELSE b

\* xs.map(f) and xs.filter(p), for a sequence xs
RECURSIVE SeqFilterNotId(_, _)
SeqFilterNotId(items, id) ==
  IF items = <<>> THEN <<>>
  ELSE IF Head(items).id # id
       THEN <<Head(items)>> \o SeqFilterNotId(Tail(items), id)
       ELSE SeqFilterNotId(Tail(items), id)

(***************************************************************************)
(* sortByOrder: [...items].sort((a, b) => a.order - b.order), a stable     *)
(* sort.                                                                   *)
(***************************************************************************)
\* an insertion that puts an item before the items of the same order key
RECURSIVE insertByOrderBeforeTies(_, _)
insertByOrderBeforeTies(sorted, item) ==
  IF sorted = <<>> THEN <<item>>
  ELSE IF sorted[1].order < item.order
       THEN <<sorted[1]>> \o insertByOrderBeforeTies(Tail(sorted), item)
       ELSE <<item>> \o sorted

RECURSIVE insertByOrder(_, _)
insertByOrder(sorted, item) ==
  IF sorted = <<>> THEN <<item>>
  ELSE IF sorted[1].order <= item.order
       THEN <<sorted[1]>> \o insertByOrder(Tail(sorted), item)
       ELSE <<item>> \o sorted

RECURSIVE sortByOrder(_)
sortByOrder(items) ==
  IF items = <<>> THEN <<>>
  ELSE insertByOrder(sortByOrder(SubSeq(items, 1, Len(items) - 1)), items[Len(items)])

\* a normalizeOrders that sorts and keeps the order keys it finds
normalizeOrdersKeep(items) == sortByOrder(items)

normalizeOrders(items) ==
  LET sorted == sortByOrder(items)
  IN  [i \in 1..Len(sorted) |-> [sorted[i] EXCEPT !.order = i * 10]]

createEmptyState(now) ==
  [version |-> 1, started |-> FALSE, selectedTemplateId |-> NULL,
   listTitle |-> DEFAULT_LIST_TITLE, items |-> <<>>, updatedAt |-> now]

(***************************************************************************)
(* Templates.  A template is [isNull, id, name, items]; an entry is        *)
(* [label, emoji, category].                                               *)
(***************************************************************************)
NoTemplate == [isNull |-> TRUE, id |-> "", name |-> "", items |-> <<>>]

IsSpace(c) == c = " "

\* String.prototype.trim
RECURSIVE trimStart(_)
trimStart(s) ==
  IF s = <<>> THEN <<>>
  ELSE IF IsSpace(Head(s)) THEN trimStart(Tail(s)) ELSE s

RECURSIVE trimEnd(_)
trimEnd(s) ==
  IF s = <<>> THEN <<>>
  ELSE IF IsSpace(s[Len(s)]) THEN trimEnd(SubSeq(s, 1, Len(s) - 1)) ELSE s

trim(s) == trimEnd(trimStart(s))

\* String.prototype.toLocaleLowerCase('ja-JP'), on the letters of the model
lowerChar(c) == IF c = "A" THEN "a" ELSE IF c = "B" THEN "b" ELSE c

toLocaleLowerCase(s) == [i \in 1..Len(s) |-> lowerChar(s[i])]

\* a forEach that never finds a key in seen
RECURSIVE uniqueEntriesKeepAll(_, _)
uniqueEntriesKeepAll(entries, acc) ==
  IF entries = <<>> THEN acc.unique
  ELSE LET entry == Head(entries)
           label == trim(entry.label)
       IN  IF label = <<>> THEN uniqueEntriesKeepAll(Tail(entries), acc)
           ELSE uniqueEntriesKeepAll(Tail(entries),
                  [seen   |-> acc.seen,
                   unique |-> Append(acc.unique, [entry EXCEPT !.label = label])])

\* the forEach of buildItemsFromTemplate: acc is [seen, unique]
RECURSIVE uniqueEntries(_, _)
uniqueEntries(entries, acc) ==
  IF entries = <<>> THEN acc.unique
  ELSE LET entry == Head(entries)
           label == trim(entry.label)
           key   == toLocaleLowerCase(label)
       IN  IF label = <<>> THEN uniqueEntries(Tail(entries), acc)
           ELSE IF key \in acc.seen THEN uniqueEntries(Tail(entries), acc)
           ELSE uniqueEntries(Tail(entries),
                  [seen   |-> acc.seen \cup {key},
                   unique |-> Append(acc.unique, [entry EXCEPT !.label = label])])

uniqueEntriesOf(template) ==
  uniqueEntries(template.items, [seen |-> {}, unique |-> <<>>])

\* a map that numbers the items of every template from 1
buildItemsFromTemplateByPosition(template, firstId) ==
  IF template.isNull THEN <<>>
  ELSE LET unique == uniqueEntriesOf(template)
       IN  [i \in 1..Len(unique) |->
             [id       |-> i,
              label    |-> unique[i].label,
              icon     |-> IF unique[i].emoji = "" THEN PLACEHOLDER_ICON
                           ELSE unique[i].emoji,
              category |-> unique[i].category,
              done     |-> FALSE,
              order    |-> i * 10]]

\* ids are taken from createId() in map order: firstId, firstId + 1, ...
buildItemsFromTemplate(template, firstId) ==
  IF template.isNull THEN <<>>
  ELSE LET unique == uniqueEntriesOf(template)
       IN  [i \in 1..Len(unique) |->
             [id       |-> firstId + i - 1,
              label    |-> unique[i].label,
              icon     |-> IF unique[i].emoji = "" THEN PLACEHOLDER_ICON
                           ELSE unique[i].emoji,
              category |-> unique[i].category,
              done     |-> FALSE,
              order    |-> i * 10]]

(***************************************************************************)
(* The stored record.  A JSON value is [t, v]: t is what typeof gives      *)
(* ("undefined" for an absent property, "null" for null) and v the value   *)
(* when t is the type the schema asks for.  A stored value is              *)
(* [kind, version, listTitle, updatedAt, started, selectedTemplateId,      *)
(* itemsIsArray, items]: kind "absent" is getItem() returning null,        *)
(* "garbage" a text JSON.parse throws on, "nonobject" a parsed value that  *)
(* is no object, "object" a parsed object with these properties.           *)
(***************************************************************************)
J(t, v) == [t |-> t, v |-> v]

StoredItem(item) ==
  [truthy   |-> TRUE,
   id       |-> J("string", item.id),
   label    |-> J("string", item.label),
   icon     |-> J("string", item.icon),
   done     |-> J("boolean", item.done),
   order    |-> J("number", item.order),
   category |-> IF item.category = UNDEFINED THEN J("undefined", "")
                ELSE J("string", item.category)]

StoredNothing ==
  [kind |-> "absent", version |-> J("undefined", 0), listTitle |-> J("undefined", ""),
   updatedAt |-> J("undefined", 0), started |-> J("undefined", FALSE),
   selectedTemplateId |-> J("undefined", ""), itemsIsArray |-> FALSE, items |-> <<>>]

\* a stringify that writes no item
stringifyDropItems(s) ==
  [kind |-> "object",
   version |-> J("number", s.version),
   listTitle |-> J("string", s.listTitle),
   updatedAt |-> J("number", s.updatedAt),
   started |-> J("boolean", s.started),
   selectedTemplateId |-> IF s.selectedTemplateId = NULL THEN J("null", "")
                          ELSE J("string", s.selectedTemplateId),
   itemsIsArray |-> TRUE,
   items |-> <<>>]

\* JSON.parse(JSON.stringify(state)): what a later getItem and parse give back
stringify(s) ==
  [kind |-> "object",
   version |-> J("number", s.version),
   listTitle |-> J("string", s.listTitle),
   updatedAt |-> J("number", s.updatedAt),
   started |-> J("boolean", s.started),
   selectedTemplateId |-> IF s.selectedTemplateId = NULL THEN J("null", "")
                          ELSE J("string", s.selectedTemplateId),
   itemsIsArray |-> TRUE,
   items |-> [i \in 1..Len(s.items) |-> StoredItem(s.items[i])]]

\* a check of the items that lets any category pass
isValidItemAnyCategory(row) ==
  /\ row.truthy
  /\ row.id.t = "string"
  /\ row.label.t = "string"
  /\ row.icon.t = "string"
  /\ row.done.t = "boolean"
  /\ row.order.t = "number"

isValidItem(row) ==
  /\ row.truthy
  /\ row.id.t = "string"
  /\ row.label.t = "string"
  /\ row.icon.t = "string"
  /\ row.done.t = "boolean"
  /\ row.order.t = "number"
  /\ (row.category.t = "undefined" \/ row.category.t = "string")

isValidState(value) ==
  /\ value.kind = "object"
  /\ value.version.t = "number" /\ value.version.v = 1
  /\ value.listTitle.t = "string"
  /\ value.updatedAt.t = "number"
  /\ value.itemsIsArray
  /\ \A i \in 1..Len(value.items) : isValidItem(value.items[i])

\* a validated stored item as the Item the program then holds
ParsedItem(row) ==
  [id |-> row.id.v, label |-> row.label.v, icon |-> row.icon.v,
   done |-> row.done.v, order |-> row.order.v,
   category |-> IF row.category.t = "string" THEN row.category.v ELSE UNDEFINED]

\* loadStateSafely returns null: [ok |-> FALSE]; the state field is then unused
LoadedNull == [ok |-> FALSE, state |-> createEmptyState(0)]

\* a load that gives "none" for every absent selectedTemplateId
loadStateSafelyNone(raw) ==
  IF raw.kind = "absent" THEN LoadedNull
  ELSE IF raw.kind = "garbage" THEN LoadedNull
  ELSE IF ~isValidState(raw) THEN LoadedNull
  ELSE LET started == IF raw.started.t = "boolean" THEN raw.started.v ELSE TRUE
           selectedTemplateId ==
             IF raw.selectedTemplateId.t = "string" THEN raw.selectedTemplateId.v
             ELSE IF raw.selectedTemplateId.t = "null" THEN NULL
             ELSE "none"
       IN  [ok |-> TRUE,
            state |->
              [version |-> 1,
               started |-> started,
               selectedTemplateId |-> selectedTemplateId,
               listTitle |-> raw.listTitle.v,
               items |-> normalizeOrders([i \in 1..Len(raw.items) |-> ParsedItem(raw.items[i])]),
               updatedAt |-> raw.updatedAt.v]]

loadStateSafely(raw) ==
  IF raw.kind = "absent" THEN LoadedNull
  ELSE IF raw.kind = "garbage" THEN LoadedNull
  ELSE IF ~isValidState(raw) THEN LoadedNull
  ELSE LET started == IF raw.started.t = "boolean" THEN raw.started.v ELSE TRUE
           selectedTemplateId ==
             IF raw.selectedTemplateId.t = "string" THEN raw.selectedTemplateId.v
             ELSE IF raw.selectedTemplateId.t = "null" THEN NULL
             ELSE IF started THEN "none" ELSE NULL
       IN  [ok |-> TRUE,
            state |->
              [version |-> 1,
               started |-> started,
               selectedTemplateId |-> selectedTemplateId,
               listTitle |-> raw.listTitle.v,
               items |-> normalizeOrders([i \in 1..Len(raw.items) |-> ParsedItem(raw.items[i])]),
               updatedAt |-> raw.updatedAt.v]]

\* a start that always shows the template screen
getInitialDataOnTemplate(raw, now) ==
  LET loaded == loadStateSafely(raw)
  IN  IF ~loaded.ok
      THEN [state |-> createEmptyState(now), screen |-> "template"]
      ELSE [state |-> loaded.state, screen |-> "template"]

getInitialData(raw, now) ==
  LET loaded == loadStateSafely(raw)
  IN  IF ~loaded.ok
      THEN [state |-> createEmptyState(now), screen |-> "template"]
      ELSE [state |-> loaded.state,
            screen |-> IF loaded.state.started THEN "checklist" ELSE "template"]

(***************************************************************************)
(* The reducer, one operator per case.  now is the value of now() and      *)
(* firstId the next value of createId().                                   *)
(***************************************************************************)
\* a TOGGLE_ITEM that flips every item
reducerToggleItemAll(s, id, now) ==
  [s EXCEPT !.items = [i \in 1..Len(s.items) |->
                         [s.items[i] EXCEPT !.done = ~s.items[i].done]],
            !.updatedAt = now]

\* a TOGGLE_ITEM that returns the state it was given when no item has the id
reducerToggleItemOrSame(s, id, now) ==
  IF \A i \in 1..Len(s.items) : s.items[i].id # id THEN s
  ELSE [s EXCEPT !.items = [i \in 1..Len(s.items) |->
                              IF s.items[i].id = id
                              THEN [s.items[i] EXCEPT !.done = ~s.items[i].done]
                              ELSE s.items[i]],
                 !.updatedAt = now]

reducerToggleItem(s, id, now) ==
  [s EXCEPT !.items = [i \in 1..Len(s.items) |->
                         IF s.items[i].id = id
                         THEN [s.items[i] EXCEPT !.done = ~s.items[i].done]
                         ELSE s.items[i]],
            !.updatedAt = now]

RECURSIVE maxOrderOf(_)
maxOrderOf(items) ==
  IF items = <<>> THEN 0 ELSE Max(maxOrderOf(Tail(items)), Head(items).order)

\* an ADD_ITEM that gives the new item the largest order key in use
reducerAddItemSameOrder(s, label, icon, now, firstId) ==
  [s EXCEPT !.items = Append(s.items,
                        [id |-> firstId,
                         label |-> label,
                         icon |-> IF icon = "" THEN PLACEHOLDER_ICON ELSE icon,
                         category |-> "custom",
                         done |-> FALSE,
                         order |-> Max(maxOrderOf(s.items), 10)]),
            !.updatedAt = now]

\* an ADD_ITEM that puts the new item first
reducerAddItemFirst(s, label, icon, now, firstId) ==
  [s EXCEPT !.items = <<[id |-> firstId,
                         label |-> label,
                         icon |-> IF icon = "" THEN PLACEHOLDER_ICON ELSE icon,
                         category |-> "custom",
                         done |-> FALSE,
                         order |-> maxOrderOf(s.items) + 10]>> \o s.items,
            !.updatedAt = now]

reducerAddItem(s, label, icon, now, firstId) ==
  [s EXCEPT !.items = Append(s.items,
                        [id |-> firstId,
                         label |-> label,
                         icon |-> IF icon = "" THEN PLACEHOLDER_ICON ELSE icon,
                         category |-> "custom",
                         done |-> FALSE,
                         order |-> maxOrderOf(s.items) + 10]),
            !.updatedAt = now]

\* a DELETE_ITEM that removes the items and leaves the order keys of the rest
reducerDeleteItemKeepsOrders(s, id, now) ==
  [s EXCEPT !.items = SeqFilterNotId(s.items, id),
            !.updatedAt = now]

\* a DELETE_ITEM that removes the last item when no item has the id
reducerDeleteItemOrLast(s, id, now) ==
  IF s.items # <<>> /\ \A i \in 1..Len(s.items) : s.items[i].id # id
  THEN [s EXCEPT !.items = normalizeOrders(SubSeq(s.items, 1, Len(s.items) - 1)),
                 !.updatedAt = now]
  ELSE [s EXCEPT !.items = normalizeOrders(SeqFilterNotId(s.items, id)),
                 !.updatedAt = now]

reducerDeleteItem(s, id, now) ==
  [s EXCEPT !.items = normalizeOrders(SeqFilterNotId(s.items, id)),
            !.updatedAt = now]

\* sorted.findIndex((item) => item.id === id), zero-based, -1 when there is none
RECURSIVE findIndex(_, _)
findIndex(items, id) ==
  IF items = <<>> THEN -1
  ELSE IF Head(items).id = id THEN 0
  ELSE LET rest == findIndex(Tail(items), id)
       IN  IF rest < 0 THEN -1 ELSE rest + 1

\* next.splice(index, 1) and next.splice(index, 0, moved), zero-based
spliceOut(items, index) ==
  SubSeq(items, 1, index) \o SubSeq(items, index + 2, Len(items))

spliceIn(items, index, moved) ==
  SubSeq(items, 1, index) \o <<moved>> \o SubSeq(items, index + 1, Len(items))

\* a MOVE_ITEM that stamps the state when it cannot move
reducerMoveItemStamps(s, id, direction, now) ==
  LET sorted       == sortByOrder(s.items)
      currentIndex == findIndex(sorted, id)
      targetIndex  == currentIndex + direction
  IN  IF currentIndex < 0 \/ targetIndex < 0 \/ targetIndex >= Len(sorted)
      THEN [s EXCEPT !.updatedAt = now]
      ELSE [s EXCEPT !.items = normalizeOrders(
                                 spliceIn(spliceOut(sorted, currentIndex),
                                          targetIndex, sorted[currentIndex + 1])),
                     !.updatedAt = now]

reducerMoveItem(s, id, direction, now) ==
  LET sorted       == sortByOrder(s.items)
      currentIndex == findIndex(sorted, id)
      targetIndex  == currentIndex + direction
  IN  IF currentIndex < 0 \/ targetIndex < 0 \/ targetIndex >= Len(sorted)
      THEN s
      ELSE [s EXCEPT !.items = normalizeOrders(
                                 spliceIn(spliceOut(sorted, currentIndex),
                                          targetIndex, sorted[currentIndex + 1])),
                     !.updatedAt = now]

\* a RESET_DONE that keeps the time of the last change
reducerResetDoneKeepsTime(s, now) ==
  [s EXCEPT !.items = [i \in 1..Len(s.items) |-> [s.items[i] EXCEPT !.done = FALSE]]]

\* a RESET_DONE that flips done on every item
reducerResetDoneFlips(s, now) ==
  [s EXCEPT !.items = [i \in 1..Len(s.items) |->
                         [s.items[i] EXCEPT !.done = ~s.items[i].done]],
            !.updatedAt = now]

reducerResetDone(s, now) ==
  [s EXCEPT !.items = [i \in 1..Len(s.items) |-> [s.items[i] EXCEPT !.done = FALSE]],
            !.updatedAt = now]

reducerUpdateMeta(s, listTitle, now) ==
  [s EXCEPT !.listTitle = listTitle, !.updatedAt = now]

\* an APPLY_TEMPLATE that merges the template into the list it finds
reducerApplyTemplateMerge(s, template, now, firstId) ==
  [version |-> 1,
   started |-> TRUE,
   selectedTemplateId |-> IF template.isNull THEN "none" ELSE template.id,
   listTitle |-> IF template.isNull \/ template.name = "" THEN DEFAULT_LIST_TITLE
                 ELSE template.name,
   items |-> s.items \o buildItemsFromTemplate(template, firstId),
   updatedAt |-> now]

reducerApplyTemplate(s, template, now, firstId) ==
  [version |-> 1,
   started |-> TRUE,
   selectedTemplateId |-> IF template.isNull THEN "none" ELSE template.id,
   listTitle |-> IF template.isNull \/ template.name = "" THEN DEFAULT_LIST_TITLE
                 ELSE template.name,
   items |-> buildItemsFromTemplate(template, firstId),
   updatedAt |-> now]

\* an Action of the reducer; the fields a type does not carry hold defaults
Action(type, id, direction, label, icon, listTitle, template) ==
  [type |-> type, id |-> id, direction |-> direction, label |-> label,
   icon |-> icon, listTitle |-> listTitle, template |-> template]

reducer(s, action, now, firstId) ==
  CASE action.type = "TOGGLE_ITEM"    -> reducerToggleItem(s, action.id, now)
    [] action.type = "ADD_ITEM"       -> reducerAddItem(s, action.label, action.icon, now, firstId)
    [] action.type = "DELETE_ITEM"    -> reducerDeleteItem(s, action.id, now)
    [] action.type = "MOVE_ITEM"      -> reducerMoveItem(s, action.id, action.direction, now)
    [] action.type = "RESET_DONE"     -> reducerResetDone(s, now)
    [] action.type = "UPDATE_META"    -> reducerUpdateMeta(s, action.listTitle, now)
    [] action.type = "APPLY_TEMPLATE" -> reducerApplyTemplate(s, action.template, now, firstId)
    [] OTHER                          -> s

\* how many times the reducer calls createId() for an action
idsTaken(action) ==
  CASE action.type = "ADD_ITEM"       -> 1
    [] action.type = "APPLY_TEMPLATE" -> IF action.template.isNull THEN 0
                                         ELSE Len(uniqueEntriesOf(action.template))
    [] OTHER                          -> 0

(***************************************************************************)
(* History: the handler that ran last.  raw is the stored value a start    *)
(* read; id is the item of a gesture event, tracked whether the event's    *)
(* (pointerId, id) was that of the tracked session, over whether its point *)
(* was in the delete target; dispatched the types of the reducer actions   *)
(* the handler dispatched, in order, changed whether the reducer returned  *)
(* another state object, template the template of an APPLY_TEMPLATE.  Of a *)
(* pointer event, pointerId is its pointer; of a pointer event of the      *)
(* tracked session, point is its clientX and clientY, and dragging is      *)
(* whether the session was Dragging when the handler returned              *)
(* (pointer-move) or when it was called (pointer-up, pointer-cancel).  Of  *)
(* a dispatched TOGGLE_ITEM or DELETE_ITEM, id is its id.  Of a click,     *)
(* afterDrag is whether it comes directly after the pointer-up of a        *)
(* tracked session that was Dragging.  threw is whether setItem threw in   *)
(* the persist effect that followed.                                       *)
(***************************************************************************)
Last(handler, id, tracked, over, raw, dispatched) ==
  [handler |-> handler, id |-> id, tracked |-> tracked, over |-> over,
   raw |-> raw, dispatched |-> dispatched, changed |-> dispatched # <<>>,
   template |-> NoTemplate, pointerId |-> NoId, point |-> [x |-> 0, y |-> 0],
   dragging |-> FALSE, afterDrag |-> FALSE, threw |-> FALSE]

\* the history of a pointer event
PointerLast(handler, pointerId, id, p, tracked, over, dragging, dispatched) ==
  [Last(handler, id, tracked, over, StoredNothing, dispatched)
     EXCEPT !.pointerId = pointerId,
            !.point = IF tracked THEN [x |-> p.x, y |-> p.y] ELSE @,
            !.dragging = dragging]

HostLast(handler, raw, dispatched) == Last(handler, NoId, FALSE, FALSE, raw, dispatched)

NoDrag == [phase |-> "none", data |-> NoId]

IdleSession ==
  [pointerId |-> NoId, id |-> NoId, startX |-> 0, startY |-> 0, dragging |-> FALSE]

\* the gesture state of a freshly mounted App
GestureMounted ==
  /\ pointerDragRef = IdleSession
  /\ draggingId = NoId
  /\ isTrashNear = FALSE
  /\ isTrashOver = FALSE
  /\ suppressNextClickRef = FALSE
  /\ timers = 0
  /\ dnd = NoDrag
  /\ dragEnded = FALSE

(***************************************************************************)
(* Inputs.                                                                 *)
(***************************************************************************)
\* ids of the items of stored records, made by createId() in earlier runs
StoredIds == {1, 2}

\* the first id createId() returns in this run: ids are not reused across runs
FirstFreshId == Cardinality(StoredIds) + 1

LastFreshId == Cardinality(StoredIds) + MaxFreshIds

StoredGarbage == [StoredNothing EXCEPT !.kind = "garbage"]

StoredRecord(started, selectedTemplateId, updatedAt, items) ==
  [kind |-> "object", version |-> J("number", 1), listTitle |-> J("string", "stored title"),
   updatedAt |-> updatedAt, started |-> started,
   selectedTemplateId |-> selectedTemplateId, itemsIsArray |-> TRUE, items |-> items]

SeqsUpTo(S, n) == UNION {[1..k -> S] : k \in 0..n}

\* stored items of the running application: ties and unsorted order keys, equal ids
SpecStoredItems ==
  {[truthy |-> TRUE, id |-> J("string", id), label |-> J("string", <<"a">>),
    icon |-> J("string", "icon"), done |-> J("boolean", FALSE),
    order |-> J("number", order), category |-> J("undefined", "")] :
      id \in StoredIds, order \in {10, 25}}

\* started and selectedTemplateId of a record written before the template screen existed
SpecStoredHeads ==
  {<<J("undefined", FALSE), J("undefined", "")>>}

SpecStored ==
  {StoredNothing, StoredGarbage} \cup
  {StoredRecord(h[1], h[2], J("number", 0), items) :
     h \in SpecStoredHeads, items \in SeqsUpTo(SpecStoredItems, MaxItems)}

\* the catalog of the running application: TEMPLATES, cut down to two templates,
\* t2 with a repeated label, an untrimmed label and an empty emoji
Entry(label, emoji, category) == [label |-> label, emoji |-> emoji, category |-> category]

TEMPLATES ==
  <<[isNull |-> FALSE, id |-> "t1", name |-> "template one",
     items |-> <<Entry(<<"a">>, "e1", "c1")>>],
    [isNull |-> FALSE, id |-> "t2", name |-> "template two",
     items |-> <<Entry(<<"b">>, "e1", "c1"), Entry(<<" ", "B">>, "e2", "c2"),
                 Entry(<<"a">>, "", "c3")>>]>>

\* ids an action may name: those of the items of s, and one that no item has
RECURSIVE IdsOf(_)
IdsOf(items) == IF items = <<>> THEN {} ELSE {Head(items).id} \cup IdsOf(Tail(items))

AbsentId == LastFreshId + 1

ActionIds(s) == IdsOf(s.items) \cup {AbsentId}

SpecActions(s) ==
  {Action("TOGGLE_ITEM", id, 0, <<>>, "", "", NoTemplate) : id \in ActionIds(s)} \cup
  {Action("DELETE_ITEM", id, 0, <<>>, "", "", NoTemplate) : id \in ActionIds(s)} \cup
  {Action("MOVE_ITEM", id, d, <<>>, "", "", NoTemplate) : id \in ActionIds(s), d \in {-1, 1}} \cup
  {Action("ADD_ITEM", NoId, 0, <<"n">>, icon, "", NoTemplate) : icon \in {"", "new icon"}} \cup
  {Action("RESET_DONE", NoId, 0, <<>>, "", "", NoTemplate)} \cup
  {Action("UPDATE_META", NoId, 0, <<>>, "", "new title", NoTemplate)}

(***************************************************************************)
(* The host.                                                               *)
(***************************************************************************)
\* useEffect(() => localStorage.setItem(STORAGE_KEY, JSON.stringify(state)), [state]):
\* runs after a render in which state is another object than before
\* an effect that never writes
persistEffectNever(old, new, changed) == old

persistEffect(old, new, changed) == IF changed THEN stringify(new) ELSE old

\* whether the reducer returns another object than the state it was given
returnsNewState(s, action) ==
  IF action.type = "MOVE_ITEM"
  THEN LET sorted       == sortByOrder(s.items)
           currentIndex == findIndex(sorted, action.id)
           targetIndex  == currentIndex + action.direction
       IN  ~(currentIndex < 0 \/ targetIndex < 0 \/ targetIndex >= Len(sorted))
  ELSE action.type \in {"TOGGLE_ITEM", "ADD_ITEM", "DELETE_ITEM", "RESET_DONE",
                        "UPDATE_META", "APPLY_TEMPLATE"}

\* dispatch(action) at time now, the render and the persist effect that follow
Dispatched(action, now) ==
  /\ state' = reducer(state, action, now, nextId)
  /\ nextId' = nextId + idsTaken(action)
  /\ storage' = persistEffect(storage, state', returnsNewState(state, action))
  /\ UNCHANGED clock

\* App mounts: getInitialData, the first render, the persist effect
Mounted(raw, now) ==
  LET initialData == getInitialData(raw, now)
  IN  /\ state = initialData.state
      /\ screen = initialData.screen
      /\ openedFromChecklist = FALSE
      /\ storage = stringify(initialData.state)
      /\ clock = now

Init ==
  /\ \E raw \in SpecStored :
       /\ Mounted(raw, 0)
       /\ last = HostLast("init", raw, <<>>)
  /\ nextId = FirstFreshId
  /\ GestureMounted

\* the controls that dispatch these actions are those of the checklist screen
Dispatch ==
  \E action \in SpecActions(state) :
    /\ screen = "checklist"
    /\ action.type = "ADD_ITEM" =>
         Len(state.items) < MaxItems /\ nextId <= LastFreshId
    /\ Dispatched(action, clock)
    /\ last' = [HostLast("dispatch", StoredNothing, <<action.type>>)
                   EXCEPT !.changed = returnsNewState(state, action),
                          !.id = IF action.type \in {"TOGGLE_ITEM", "DELETE_ITEM"}
                                 THEN action.id ELSE NoId]
    /\ UNCHANGED <<screen, openedFromChecklist, gestureVars, dragEnded>>

\* applyTemplate(templateId): TEMPLATES.find, dispatch, setScreen('checklist');
\* catalog is TEMPLATES as a set, lastId the last id createId() gives
applyTemplateFrom(catalog, lastId) ==
  \E selected \in {NoTemplate} \cup catalog :
    LET action == Action("APPLY_TEMPLATE", NoId, 0, <<>>, "", "", selected)
    IN  /\ screen = "template"
        /\ nextId + idsTaken(action) - 1 <= lastId
        /\ Dispatched(action, clock)
        /\ screen' = "checklist"
        /\ openedFromChecklist' = FALSE
        /\ last' = [HostLast("applyTemplate", StoredNothing, <<action.type>>)
                       EXCEPT !.template = selected]
        /\ UNCHANGED <<gestureVars, dragEnded>>

applyTemplate == applyTemplateFrom({TEMPLATES[i] : i \in 1..Len(TEMPLATES)}, LastFreshId)

openTemplateScreen ==
  /\ screen = "checklist"
  /\ screen' = "template"
  /\ openedFromChecklist' = TRUE
  /\ last' = HostLast("openTemplateScreen", StoredNothing, <<>>)
  /\ UNCHANGED <<state, storage, clock, nextId, gestureVars, dragEnded>>

\* a way back that the template screen offers whenever it is shown
returnToChecklistAlways ==
  /\ screen = "template"
  /\ screen' = "checklist"
  /\ openedFromChecklist' = FALSE
  /\ last' = HostLast("returnToChecklist", StoredNothing, <<>>)
  /\ UNCHANGED <<state, storage, clock, nextId, gestureVars, dragEnded>>

\* the button of the template screen that is shown when openedFromChecklist
returnToChecklist ==
  /\ screen = "template"
  /\ openedFromChecklist
  /\ screen' = "checklist"
  /\ openedFromChecklist' = FALSE
  /\ last' = HostLast("returnToChecklist", StoredNothing, <<>>)
  /\ UNCHANGED <<state, storage, clock, nextId, gestureVars, dragEnded>>

\* the page is loaded again: App mounts on what is stored
Reload ==
  LET initialData == getInitialData(storage, clock)
  IN  /\ state' = initialData.state
      /\ screen' = initialData.screen
      /\ openedFromChecklist' = FALSE
      /\ storage' = stringify(initialData.state)
      /\ last' = HostLast("init", storage, <<>>)
      /\ UNCHANGED <<clock, nextId, gestureVars, dragEnded>>

\* time passes between two events
Tick ==
  /\ clock < MaxClock
  /\ clock' = clock + 1
  /\ last' = HostLast("tick", StoredNothing, <<>>)
  /\ UNCHANGED <<state, screen, openedFromChecklist, storage, nextId, gestureVars,
                 dragEnded>>

Next ==
  \/ Tick
  \/ Dispatch
  \/ applyTemplate
  \/ openTemplateScreen
  \/ returnToChecklist
  \/ Reload

Spec == Init /\ [][Next]_vars

(***************************************************************************)
(* The gesture handlers of the checklist screen.                           *)
(***************************************************************************)
\* trashZoneRef.current.getBoundingClientRect(), fixed while the checklist is shown
TrashRect == [left |-> 200, right |-> 240, top |-> 300, bottom |-> 340]

\* a test that leaves out the edge of the rectangle
isPointInTrashInside(clientX, clientY) ==
  /\ clientX > TrashRect.left /\ clientX < TrashRect.right
  /\ clientY > TrashRect.top /\ clientY < TrashRect.bottom

isPointInTrash(clientX, clientY) ==
  /\ clientX >= TrashRect.left /\ clientX <= TrashRect.right
  /\ clientY >= TrashRect.top /\ clientY <= TrashRect.bottom

Max3(a, b, c) == Max(a, Max(b, c))

\* the square of getDistanceToTrash: Math.hypot(dx, dy) <= r iff dx*dx + dy*dy <= r*r
distanceToTrashSquared(clientX, clientY) ==
  LET dx == Max3(TrashRect.left - clientX, 0, clientX - TrashRect.right)
      dy == Max3(TrashRect.top - clientY, 0, clientY - TrashRect.bottom)
  IN  dx * dx + dy * dy

isNearTrash(clientX, clientY) ==
  distanceToTrashSquared(clientX, clientY) <= NEAR_RADIUS * NEAR_RADIUS

\* at exactly 10 from the start point, and beyond, the session starts to drag
exceedsThresholdFromTen(current, clientX, clientY) ==
  (clientX - current.startX) * (clientX - current.startX)
    + (clientY - current.startY) * (clientY - current.startY)
  >= DRAG_THRESHOLD * DRAG_THRESHOLD

\* a threshold of twice the distance
exceedsThresholdTwice(current, clientX, clientY) ==
  (clientX - current.startX) * (clientX - current.startX)
    + (clientY - current.startY) * (clientY - current.startY)
  > 4 * DRAG_THRESHOLD * DRAG_THRESHOLD

\* Math.hypot(x - startX, y - startY) > 10
exceedsThreshold(current, clientX, clientY) ==
  (clientX - current.startX) * (clientX - current.startX)
    + (clientY - current.startY) * (clientY - current.startY)
  > DRAG_THRESHOLD * DRAG_THRESHOLD

Point(x, y) == [x |-> x, y |-> y]

\* where a pointer goes down
StartPoints == {Point(100, 100)}

\* where a pointer moves to: the start point, 10 and more than 10 away from it,
\* 97 and 96 and 50 from the delete target, on its edge and inside it
MovePoints ==
  {Point(100, 100), Point(106, 108), Point(107, 108), Point(103, 320),
   Point(104, 320), Point(150, 320), Point(200, 300), Point(220, 320)}

\* where a drag event is: as a pointer, and the (0, 0) browsers report as a drag ends
DragPoints == MovePoints \cup {Point(0, 0)}

\* where a pointer goes up or is cancelled: outside the delete target, on its edge, inside
ReleasePoints == {Point(107, 108), Point(200, 300), Point(220, 320)}

PointerIds == {1, 2}

PointerTypes == {"mouse", "touch", "pen"}

\* the items the checklist shows: event targets
ShownIds == IdsOf(state.items)

resetDragState ==
  /\ draggingId' = NoId
  /\ isTrashNear' = FALSE
  /\ isTrashOver' = FALSE
  /\ pointerDragRef' = IdleSession

\* deleteItemById(id): dispatch DELETE_ITEM (the toast is not modelled)
deleteItemById(id) ==
  Dispatched(Action("DELETE_ITEM", id, 0, <<>>, "", "", NoTemplate), clock)

\* a match on the pointer alone
TrackedByPointer(pointerId, id) == pointerDragRef.pointerId = pointerId

\* the event is that of the tracked session
Tracked(pointerId, id) ==
  pointerDragRef.pointerId = pointerId /\ pointerDragRef.id = id

\* the browser delivers no pointer-down, pointer-move or pointer-up while it
\* drags: input events are suppressed for the time of a drag-and-drop operation,
\* and the pointer that started it is cancelled.  The pointer the session tracks
\* is down, and captured by its item, until its pointer-up or pointer-cancel
\* ends the session: it does not go down again before
handleItemPointerDown ==
  \E pointerType \in PointerTypes, pointerId \in PointerIds, id \in ShownIds,
     p \in StartPoints :
    /\ screen = "checklist"
    /\ dnd.phase = "none"
    /\ pointerId # pointerDragRef.pointerId
    /\ IF pointerType = "mouse"
       THEN UNCHANGED pointerDragRef
       ELSE pointerDragRef' = [pointerId |-> pointerId, id |-> id, startX |-> p.x,
                               startY |-> p.y, dragging |-> FALSE]
    /\ last' = PointerLast("pointerdown", pointerId, id, p, pointerType # "mouse",
                           isPointInTrash(p.x, p.y), FALSE, <<>>)
    /\ dragEnded' = FALSE
    /\ UNCHANGED <<hostVars, draggingId, isTrashNear, isTrashOver,
                   suppressNextClickRef, timers, dnd>>

handleItemPointerMove ==
  \E pointerId \in PointerIds, id \in ShownIds, p \in MovePoints :
    LET current  == pointerDragRef
        starts   == ~current.dragging /\ exceedsThreshold(current, p.x, p.y)
        dragging == current.dragging \/ starts
    IN  /\ screen = "checklist"
        /\ dnd.phase = "none"
        /\ last' = PointerLast("pointermove", pointerId, id, p, Tracked(pointerId, id),
                               isPointInTrash(p.x, p.y),
                               Tracked(pointerId, id) /\ dragging, <<>>)
        /\ IF ~Tracked(pointerId, id)
           THEN UNCHANGED <<pointerDragRef, draggingId, isTrashNear, isTrashOver,
                            suppressNextClickRef>>
           ELSE /\ pointerDragRef' = [current EXCEPT !.dragging = dragging]
                /\ suppressNextClickRef' = IF starts THEN TRUE ELSE suppressNextClickRef
                /\ draggingId' = IF starts THEN id ELSE draggingId
                /\ IF ~dragging
                   THEN UNCHANGED <<isTrashNear, isTrashOver>>
                   ELSE /\ isTrashOver' = isPointInTrash(p.x, p.y)
                        /\ isTrashNear' = (isNearTrash(p.x, p.y) \/ isPointInTrash(p.x, p.y))
        /\ UNCHANGED <<hostVars, timers, dnd, dragEnded>>

\* a release that deletes the item of a session that is only Armed
finishTouchDragOfArmed(handler, allowDelete) ==
  \E pointerId \in PointerIds, id \in ShownIds, p \in ReleasePoints :
    LET current == pointerDragRef
        deletes == allowDelete /\ current.id # NoId /\ isPointInTrash(p.x, p.y)
    IN  /\ screen = "checklist"
        /\ handler = "pointerup" => dnd.phase = "none"
        /\ IF ~Tracked(pointerId, id)
           THEN /\ last' = PointerLast(handler, pointerId, id, p, FALSE,
                                       isPointInTrash(p.x, p.y), FALSE, <<>>)
                /\ UNCHANGED <<hostVars, gestureVars, dragEnded>>
           ELSE /\ current.dragging => timers < MaxTimers
                /\ IF deletes THEN deleteItemById(current.id) ELSE UNCHANGED hostVars
                /\ IF current.dragging
                   THEN suppressNextClickRef' = TRUE /\ timers' = timers + 1
                   ELSE UNCHANGED <<suppressNextClickRef, timers>>
                /\ resetDragState
                /\ last' = PointerLast(handler, pointerId, id, p, TRUE,
                                       isPointInTrash(p.x, p.y), current.dragging,
                                       IF deletes THEN <<"DELETE_ITEM">> ELSE <<>>)
                /\ dragEnded' = (current.dragging \/ dragEnded)
                /\ UNCHANGED <<screen, openedFromChecklist, dnd>>

finishTouchDrag(handler, allowDelete) ==
  \E pointerId \in PointerIds, id \in ShownIds, p \in ReleasePoints :
    LET current == pointerDragRef
        deletes == allowDelete /\ current.dragging /\ current.id # NoId
                   /\ isPointInTrash(p.x, p.y)
    IN  /\ screen = "checklist"
        /\ handler = "pointerup" => dnd.phase = "none"
        /\ IF ~Tracked(pointerId, id)
           THEN /\ last' = PointerLast(handler, pointerId, id, p, FALSE,
                                       isPointInTrash(p.x, p.y), FALSE, <<>>)
                /\ UNCHANGED <<hostVars, gestureVars, dragEnded>>
           ELSE /\ current.dragging => timers < MaxTimers
                /\ IF deletes THEN deleteItemById(current.id) ELSE UNCHANGED hostVars
                /\ IF current.dragging
                   THEN suppressNextClickRef' = TRUE /\ timers' = timers + 1
                   ELSE UNCHANGED <<suppressNextClickRef, timers>>
                /\ resetDragState
                /\ last' = PointerLast(handler, pointerId, id, p, TRUE,
                                       isPointInTrash(p.x, p.y), current.dragging,
                                       IF deletes THEN <<"DELETE_ITEM">> ELSE <<>>)
                /\ dragEnded' = (current.dragging \/ dragEnded)
                /\ UNCHANGED <<screen, openedFromChecklist, dnd>>

handleItemPointerUp == finishTouchDrag("pointerup", TRUE)

\* a pointer-cancel that evaluates the delete target as pointer-up does
handleItemPointerCancelDeletes == finishTouchDrag("pointercancel", TRUE)

handleItemPointerCancel == finishTouchDrag("pointercancel", FALSE)

\* a callback of window.setTimeout(() => { suppressNextClickRef.current = false }, 0)
timerFires ==
  /\ timers > 0
  /\ timers' = timers - 1
  /\ suppressNextClickRef' = FALSE
  /\ last' = Last("timer", NoId, FALSE, FALSE, StoredNothing, <<>>)
  /\ UNCHANGED <<hostVars, pointerDragRef, draggingId, isTrashNear, isTrashOver, dnd,
                 dragEnded>>

\* a click that leaves the flag as it finds it
handleItemClickKeepsFlag ==
  \E id \in ShownIds :
    /\ screen = "checklist"
    /\ dnd.phase = "none"
    /\ dragEnded' = FALSE
    /\ IF suppressNextClickRef
       THEN /\ last' = Last("click", id, FALSE, FALSE, StoredNothing, <<>>)
            /\ UNCHANGED hostVars
       ELSE /\ Dispatched(Action("TOGGLE_ITEM", id, 0, <<>>, "", "", NoTemplate), clock)
            /\ last' = Last("click", id, FALSE, FALSE, StoredNothing, <<"TOGGLE_ITEM">>)
            /\ UNCHANGED <<screen, openedFromChecklist>>
    /\ UNCHANGED <<pointerDragRef, draggingId, isTrashNear, isTrashOver, timers, dnd,
                   suppressNextClickRef>>

\* the browser fires no click while it drags
handleItemClick ==
  \E id \in ShownIds :
    LET afterDrag == last.handler = "pointerup" /\ last.tracked /\ last.dragging
    IN  /\ screen = "checklist"
        /\ dnd.phase = "none"
        /\ dragEnded' = FALSE
        /\ IF suppressNextClickRef
           THEN /\ suppressNextClickRef' = FALSE
                /\ last' = [Last("click", id, FALSE, FALSE, StoredNothing, <<>>)
                               EXCEPT !.afterDrag = afterDrag]
                /\ UNCHANGED hostVars
           ELSE /\ Dispatched(Action("TOGGLE_ITEM", id, 0, <<>>, "", "", NoTemplate), clock)
                /\ last' = [Last("click", id, FALSE, FALSE, StoredNothing,
                                 <<"TOGGLE_ITEM">>)
                               EXCEPT !.afterDrag = afterDrag]
                /\ UNCHANGED <<screen, openedFromChecklist, suppressNextClickRef>>
        /\ UNCHANGED <<pointerDragRef, draggingId, isTrashNear, isTrashOver, timers, dnd>>

\* the browser starts a drag of an item: no other drag is in progress
handleItemDragStart ==
  \E id \in ShownIds :
    /\ screen = "checklist"
    /\ dnd.phase = "none"
    /\ draggingId' = id
    /\ isTrashNear' = FALSE
    /\ isTrashOver' = FALSE
    /\ suppressNextClickRef' = TRUE
    /\ dnd' = [phase |-> "drag", data |-> id]
    /\ dragEnded' = FALSE
    /\ last' = Last("dragstart", id, FALSE, FALSE, StoredNothing, <<>>)
    /\ UNCHANGED <<hostVars, pointerDragRef, timers>>

handleItemDrag ==
  \E p \in DragPoints :
    /\ dnd.phase = "drag"
    /\ last' = Last("drag", dnd.data, FALSE, isPointInTrash(p.x, p.y), StoredNothing, <<>>)
    /\ IF draggingId = NoId \/ (p.x <= 0 /\ p.y <= 0)
       THEN UNCHANGED <<isTrashNear, isTrashOver>>
       ELSE /\ isTrashOver' = isPointInTrash(p.x, p.y)
            /\ isTrashNear' = (isNearTrash(p.x, p.y) \/ isPointInTrash(p.x, p.y))
    /\ UNCHANGED <<hostVars, pointerDragRef, draggingId, suppressNextClickRef, timers, dnd,
                   dragEnded>>

\* a dragend that schedules the timer and resets nothing
handleItemDragEndKeepsState ==
  /\ dnd.phase \in {"drag", "dropped"}
  /\ timers < MaxTimers
  /\ timers' = timers + 1
  /\ dnd' = NoDrag
  /\ dragEnded' = TRUE
  /\ last' = Last("dragend", dnd.data, FALSE, FALSE, StoredNothing, <<>>)
  /\ UNCHANGED <<hostVars, pointerDragRef, draggingId, isTrashNear, isTrashOver,
                 suppressNextClickRef>>

\* dragend comes last in a drag, after the drop if there is one
handleItemDragEnd ==
  /\ dnd.phase \in {"drag", "dropped"}
  /\ timers < MaxTimers
  /\ resetDragState
  /\ timers' = timers + 1
  /\ dnd' = NoDrag
  /\ dragEnded' = TRUE
  /\ last' = Last("dragend", dnd.data, FALSE, FALSE, StoredNothing, <<>>)
  /\ UNCHANGED <<hostVars, suppressNextClickRef>>

\* a drag-over that sets the flags whether an item is dragged or not
handleTrashDragOverUnguarded ==
  /\ dnd.phase = "drag"
  /\ isTrashNear' = TRUE
  /\ isTrashOver' = TRUE
  /\ last' = Last("dragover", dnd.data, FALSE, TRUE, StoredNothing, <<>>)
  /\ UNCHANGED <<hostVars, pointerDragRef, draggingId, suppressNextClickRef, timers, dnd,
                 dragEnded>>

handleTrashDragOver ==
  /\ dnd.phase = "drag"
  /\ IF draggingId # NoId
     THEN isTrashNear' = TRUE /\ isTrashOver' = TRUE
     ELSE UNCHANGED <<isTrashNear, isTrashOver>>
  /\ last' = Last("dragover", dnd.data, FALSE, TRUE, StoredNothing, <<>>)
  /\ UNCHANGED <<hostVars, pointerDragRef, draggingId, suppressNextClickRef, timers, dnd,
                 dragEnded>>

\* a drag-leave that clears the near flag only
handleTrashDragLeaveKeepsOver ==
  /\ dnd.phase = "drag"
  /\ isTrashNear' = FALSE
  /\ last' = Last("dragleave", dnd.data, FALSE, FALSE, StoredNothing, <<>>)
  /\ UNCHANGED <<hostVars, pointerDragRef, draggingId, isTrashOver, suppressNextClickRef,
                 timers, dnd, dragEnded>>

handleTrashDragLeave ==
  /\ dnd.phase = "drag"
  /\ isTrashNear' = FALSE
  /\ isTrashOver' = FALSE
  /\ last' = Last("dragleave", dnd.data, FALSE, FALSE, StoredNothing, <<>>)
  /\ UNCHANGED <<hostVars, pointerDragRef, draggingId, suppressNextClickRef, timers, dnd,
                 dragEnded>>

handleTrashDrop ==
  LET id == IF draggingId # NoId THEN draggingId ELSE dnd.data
  IN  /\ dnd.phase = "drag"
      /\ IF id # NoId THEN deleteItemById(id) ELSE UNCHANGED hostVars
      /\ resetDragState
      /\ dnd' = [dnd EXCEPT !.phase = "dropped"]
      /\ last' = Last("drop", id, FALSE, TRUE, StoredNothing,
                      IF id # NoId THEN <<"DELETE_ITEM">> ELSE <<>>)
      /\ dragEnded' = TRUE
      /\ UNCHANGED <<screen, openedFromChecklist, suppressNextClickRef, timers>>

\* the checklist of two items that the gesture specification starts on
GestureStored ==
  StoredRecord(J("boolean", TRUE), J("string", "none"), J("number", 0),
    <<StoredItem([id |-> 1, label |-> <<"a">>, icon |-> "icon", done |-> FALSE,
                  order |-> 10, category |-> "custom"]),
      StoredItem([id |-> 2, label |-> <<"b">>, icon |-> "icon", done |-> TRUE,
                  order |-> 20, category |-> "custom"])>>)

InitGesture ==
  /\ Mounted(GestureStored, 0)
  /\ last = HostLast("init", GestureStored, <<>>)
  /\ nextId = FirstFreshId
  /\ GestureMounted

NextGesture ==
  \/ handleItemPointerDown
  \/ handleItemPointerMove
  \/ handleItemPointerUp
  \/ handleItemPointerCancel
  \/ timerFires
  \/ handleItemClick
  \/ handleItemDragStart
  \/ handleItemDrag
  \/ handleItemDragEnd
  \/ handleTrashDragOver
  \/ handleTrashDragLeave
  \/ handleTrashDrop

SpecGesture == InitGesture /\ [][NextGesture]_vars

(***************************************************************************)
(* APPLY_TEMPLATE on any catalog: the App with TEMPLATES holding one       *)
(* template of up to MaxTemplateLen entries.                               *)
(***************************************************************************)
\* labels of template entries: blank, two spellings of one label, another label
TemplateLabels == {<<" ">>, <<"a">>, <<"A", " ">>, <<"b">>}

\* emoji of the entries of a template, by position: some of them empty
TemplateEmojis == {<<"", "e2", "", "e4", "">>, <<"e1", "", "e3", "", "e5">>}

\* category of the entries of a template, by position
TemplateCategories == <<"c1", "c2", "c3", "c4", "c5">>

TemplateNames == {"", "template name"}

TemplateInputs ==
  {[isNull |-> FALSE, id |-> "t", name |-> name,
    items |-> [i \in 1..Len(labels) |->
                 Entry(labels[i], emojis[i], TemplateCategories[i])]] :
     name \in TemplateNames, emojis \in TemplateEmojis,
     labels \in SeqsUpTo(TemplateLabels, MaxTemplateLen)}

\* createId() gives as many ids as one template can take
LastTemplateId == Cardinality(StoredIds) + MaxTemplateLen

applyTemplateInput == applyTemplateFrom(TemplateInputs, LastTemplateId)

InitTemplate ==
  /\ \E raw \in {StoredNothing, GestureStored} :
       /\ Mounted(raw, 0)
       /\ last = HostLast("init", raw, <<>>)
  /\ nextId = FirstFreshId
  /\ GestureMounted

NextTemplate ==
  \/ applyTemplateInput
  \/ openTemplateScreen

SpecTemplate == InitTemplate /\ [][NextTemplate]_vars

(***************************************************************************)
(* Startup on any stored value: what localStorage may hold when the App    *)
(* mounts, written by this App, by an earlier version of it or by anyone.  *)
(***************************************************************************)
\* stored items the schema accepts: two ids, order keys negative, tied, with gaps
\* and unsorted, done and category either way
LoadValidRows ==
  {[truthy |-> TRUE, id |-> J("string", id), label |-> J("string", <<"a">>),
    icon |-> J("string", "icon"), done |-> J("boolean", id = 2),
    order |-> J("number", order),
    category |-> IF order = 25 THEN J("undefined", "") ELSE J("string", "c")] :
      id \in StoredIds, order \in {-5, 10, 25}}

LoadGoodRow == CHOOSE row \in LoadValidRows : row.id.v = 1 /\ row.order.v = 10

\* stored items the schema refuses: null, and an item with one property of
\* another type or absent
LoadBadRows ==
  {[LoadGoodRow EXCEPT !.truthy = FALSE]} \cup
  {[LoadGoodRow EXCEPT !.id = J(t, 1)] : t \in {"number", "undefined"}} \cup
  {[LoadGoodRow EXCEPT !.label = J(t, <<>>)] : t \in {"number", "undefined"}} \cup
  {[LoadGoodRow EXCEPT !.icon = J(t, "")] : t \in {"null", "undefined"}} \cup
  {[LoadGoodRow EXCEPT !.done = J(t, FALSE)] : t \in {"string", "undefined"}} \cup
  {[LoadGoodRow EXCEPT !.order = J(t, 10)] : t \in {"string", "undefined"}} \cup
  {[LoadGoodRow EXCEPT !.category = J(t, "")] : t \in {"null", "number"}}

\* started and selectedTemplateId: of the right type, absent, of another type
LoadStarted ==
  {J("boolean", TRUE), J("boolean", FALSE), J("undefined", FALSE), J("string", FALSE)}

LoadSelectedTemplateId ==
  {J("string", "t1"), J("null", ""), J("undefined", ""), J("number", "")}

\* records the schema accepts
LoadValidRecords ==
  {StoredRecord(started, selectedTemplateId, J("number", 0), items) :
     started \in LoadStarted, selectedTemplateId \in LoadSelectedTemplateId,
     items \in SeqsUpTo(LoadValidRows, MaxItems)}

LoadGoodRecord ==
  StoredRecord(J("boolean", TRUE), J("string", "t1"), J("number", 0), <<LoadGoodRow>>)

\* records the schema refuses: one rule broken, or an item that breaks a rule
LoadBadRecords ==
  {[LoadGoodRecord EXCEPT !.kind = kind] : kind \in {"absent", "garbage", "nonobject"}} \cup
  {[LoadGoodRecord EXCEPT !.version = version] :
     version \in {J("number", 2), J("string", 1), J("undefined", 1)}} \cup
  {[LoadGoodRecord EXCEPT !.listTitle = J(t, "")] : t \in {"number", "undefined"}} \cup
  {[LoadGoodRecord EXCEPT !.updatedAt = J(t, 0)] : t \in {"string", "undefined"}} \cup
  {[LoadGoodRecord EXCEPT !.itemsIsArray = FALSE, !.items = <<>>]} \cup
  {[LoadGoodRecord EXCEPT !.items = items] :
     items \in {rows \in SeqsUpTo({LoadGoodRow} \cup LoadBadRows, MaxItems) :
                  \E i \in 1..Len(rows) : rows[i] \in LoadBadRows}}

LoadStored == LoadValidRecords \cup LoadBadRecords

InitLoad ==
  /\ \E raw \in LoadStored :
       /\ Mounted(raw, 0)
       /\ last = HostLast("init", raw, <<>>)
  /\ nextId = FirstFreshId
  /\ GestureMounted

NextLoad ==
  \/ Tick
  \/ Reload

SpecLoad == InitLoad /\ [][NextLoad]_vars

(***************************************************************************)
(* The App where localStorage.setItem may throw (the quota is exceeded,    *)
(* storage is denied).  The persist effect calls setItem outside any try:  *)
(* the exception leaves the effect, and React unmounts the component tree  *)
(* of an effect that throws.  screen "unmounted" is the App after that: no *)
(* handler runs until the page is loaded again.                            *)
(***************************************************************************)
\* dispatch(action), the render, and a persist effect in which setItem throws
DispatchSetItemThrows ==
  \E action \in SpecActions(state) :
    /\ screen = "checklist"
    /\ returnsNewState(state, action)
    /\ action.type = "ADD_ITEM" =>
         Len(state.items) < MaxItems /\ nextId <= LastFreshId
    /\ state' = reducer(state, action, clock, nextId)
    /\ nextId' = nextId + idsTaken(action)
    /\ screen' = "unmounted"
    /\ UNCHANGED openedFromChecklist
    /\ last' = [HostLast("dispatch", StoredNothing, <<action.type>>)
                   EXCEPT !.threw = TRUE]
    /\ UNCHANGED <<storage, clock, gestureVars, dragEnded>>

NextSetItemThrows ==
  \/ Next
  \/ DispatchSetItemThrows

SpecSetItemThrows == Init /\ [][NextSetItemThrows]_vars

(***************************************************************************)
(* Properties of the reducer and of persistence, checked under Spec.       *)
(***************************************************************************)
\* the order keys of items, read in ascending order, are 10, 20, ..., 10 * Len(items)
OrdersAreTenTimesPosition(items) ==
  LET sorted == sortByOrder(items)
  IN  \A i \in 1..Len(sorted) : sorted[i].order = 10 * i

LastDispatched(type) == last.handler = "dispatch" /\ last.dispatched = <<type>>

\* C1: immediately after each DELETE_ITEM, and after each MOVE_ITEM that took the
\* branch that moves, the order keys of the items in ascending order are exactly
\* 10, 20, ..., 10 * N, N the number of items then in the list.
C1_NormalizedAfterDeleteOrMove ==
  (/\ LastDispatched("DELETE_ITEM") \/ LastDispatched("MOVE_ITEM")
   /\ last.changed)
    => OrdersAreTenTimesPosition(state.items)

\* a MOVE_ITEM has taken the branch that moves, on a list of MaxItems items with
\* different ids, after a start on a stored record
C1_Witness ==
  /\ LastDispatched("MOVE_ITEM")
  /\ last.changed
  /\ Len(state.items) = MaxItems
  /\ Cardinality(IdsOf(state.items)) = MaxItems
  /\ state.listTitle = "stored title"

\* C4: the record written for a state loads, and loads as a state with the same
\* version, started, selectedTemplateId, listTitle and updatedAt and the same
\* items in the same sequence (id, label, icon, done, category); the order key
\* of the i-th loaded item is 10 * i.
C4_LoadOfSaveIsState ==
  LET loaded == loadStateSafely(stringify(state))
  IN  /\ loaded.ok
      /\ loaded.state.version = state.version
      /\ loaded.state.started = state.started
      /\ loaded.state.selectedTemplateId = state.selectedTemplateId
      /\ loaded.state.listTitle = state.listTitle
      /\ loaded.state.updatedAt = state.updatedAt
      /\ Len(loaded.state.items) = Len(state.items)
      /\ \A i \in 1..Len(state.items) :
           /\ loaded.state.items[i] = [state.items[i] EXCEPT !.order = 10 * i]
           /\ \A j \in 1..Len(state.items) :
                i < j => state.items[i].order <= state.items[j].order

\* the App has started on the record it wrote itself for a list of MaxItems
\* items, one of them added in the run before
C4_Witness ==
  /\ last.handler = "init"
  /\ last.raw = stringify(state)
  /\ Len(state.items) = MaxItems
  /\ \E i \in 1..Len(state.items) : state.items[i].category = "custom"

\* C5: no two items of the list have the same id.
C5_NoDuplicateIds ==
  \A i, j \in 1..Len(state.items) : i # j => state.items[i].id # state.items[j].id

\* C6: no two items of the list have the same order key.
C6_NoOrderTies ==
  \A i, j \in 1..Len(state.items) : i # j => state.items[i].order # state.items[j].order

\* an ADD_ITEM has appended to a list loaded from a stored record
C6_Witness ==
  /\ LastDispatched("ADD_ITEM")
  /\ Len(state.items) = MaxItems
  /\ state.items[1].category = UNDEFINED
  /\ state.items[Len(state.items)].category = "custom"

\* positions, in ascending order of the order keys, of the items that have id
SortedPositions(items, id) ==
  {i \in 1..Len(items) : sortByOrder(items)[i].id = id}

Least(S) == CHOOSE n \in S : \A m \in S : n <= m

\* MOVE_ITEM of id in direction cannot move: no item has id, or the first item
\* with id in ascending order is the first and goes up, or is the last and goes down
CannotMove(items, id, direction) ==
  LET positions == SortedPositions(items, id)
  IN  \/ positions = {}
      \/ direction = -1 /\ Least(positions) = 1
      \/ direction = 1 /\ Least(positions) = Len(items)

\* C7: a MOVE_ITEM that cannot move (no item has the id, or the item is first
\* and the direction is -1, or the item is last and the direction is +1) returns
\* the state it was given: items and updatedAt are unchanged, at a later time too.
C7_MoveItemNoOp ==
  \A id \in ActionIds(state), direction \in {-1, 1} :
    CannotMove(state.items, id, direction) =>
      reducer(state, Action("MOVE_ITEM", id, direction, <<>>, "", "", NoTemplate),
              clock + 1, nextId) = state

\* a MOVE_ITEM has left a list of MaxItems items with different ids as it was, at
\* a time later than the last change
C7_Witness ==
  /\ LastDispatched("MOVE_ITEM")
  /\ ~last.changed
  /\ Len(state.items) = MaxItems
  /\ Cardinality(IdsOf(state.items)) = MaxItems
  /\ state.updatedAt < clock

\* C8: TOGGLE_ITEM of an id, applied twice, gives back the items of the state it
\* started from; applied once it flips done on the items with that id, leaves
\* every other item as it was, and changes nothing else but updatedAt.
C8_ToggleIsInvolution ==
  \A id \in ActionIds(state) :
    LET toggle == Action("TOGGLE_ITEM", id, 0, <<>>, "", "", NoTemplate)
        once   == reducer(state, toggle, clock, nextId)
        twice  == reducer(once, toggle, clock, nextId)
    IN  /\ twice.items = state.items
        /\ Len(once.items) = Len(state.items)
        /\ \A i \in 1..Len(state.items) :
             IF state.items[i].id = id
             THEN once.items[i] = [state.items[i] EXCEPT !.done = ~state.items[i].done]
             ELSE once.items[i] = state.items[i]
        /\ [once EXCEPT !.items = state.items, !.updatedAt = state.updatedAt] = state

\* a TOGGLE_ITEM has acted on a list of MaxItems items: one item is done and
\* another is not
C8_Witness ==
  /\ LastDispatched("TOGGLE_ITEM")
  /\ Len(state.items) = MaxItems
  /\ \E i, j \in 1..Len(state.items) : state.items[i].done /\ ~state.items[j].done

\* C19: after startup and after every action the stored record is the current
\* state in full: the same version, started, selectedTemplateId, listTitle and
\* updatedAt, and the same items with all their fields in the same sequence.
C19_StoredRecordIsState ==
  /\ storage.kind = "object"
  /\ storage.version = J("number", state.version)
  /\ storage.started = J("boolean", state.started)
  /\ storage.selectedTemplateId =
       IF state.selectedTemplateId = NULL THEN J("null", "")
       ELSE J("string", state.selectedTemplateId)
  /\ storage.listTitle = J("string", state.listTitle)
  /\ storage.updatedAt = J("number", state.updatedAt)
  /\ storage.itemsIsArray
  /\ Len(storage.items) = Len(state.items)
  /\ \A i \in 1..Len(state.items) :
       /\ storage.items[i].truthy
       /\ storage.items[i].id = J("string", state.items[i].id)
       /\ storage.items[i].label = J("string", state.items[i].label)
       /\ storage.items[i].icon = J("string", state.items[i].icon)
       /\ storage.items[i].done = J("boolean", state.items[i].done)
       /\ storage.items[i].order = J("number", state.items[i].order)
       /\ storage.items[i].category =
            IF state.items[i].category = UNDEFINED THEN J("undefined", "")
            ELSE J("string", state.items[i].category)

\* an ADD_ITEM at a later time has been written: the stored record has MaxItems
\* items, the last one the new item, and the time of the action
C19_Witness ==
  /\ LastDispatched("ADD_ITEM")
  /\ Len(storage.items) = MaxItems
  /\ storage.items[MaxItems].category = J("string", "custom")
  /\ storage.updatedAt.v = clock
  /\ clock > 0

IdCount(items, id) == Cardinality({i \in 1..Len(items) : items[i].id = id})

\* C23: a TOGGLE_ITEM sets updatedAt to the time of the action and keeps the
\* sequence of the items and the id, label, icon, category and order of each;
\* of an id that no item has, it leaves every item as it was; of an id that
\* items have, it flips done on those items and on no other.
C23_ToggleTouchesDoneOnly ==
  [][last'.dispatched = <<"TOGGLE_ITEM">>
       => /\ state'.updatedAt = clock
          /\ Len(state'.items) = Len(state.items)
          /\ \A i \in 1..Len(state.items) :
               /\ state'.items[i].id = state.items[i].id
               /\ state'.items[i].label = state.items[i].label
               /\ state'.items[i].icon = state.items[i].icon
               /\ state'.items[i].category = state.items[i].category
               /\ state'.items[i].order = state.items[i].order
               /\ state'.items[i].done =
                    IF state.items[i].id = last'.id THEN ~state.items[i].done
                    ELSE state.items[i].done
          /\ (last'.id \notin IdsOf(state.items)) => state'.items = state.items]_vars

\* a TOGGLE_ITEM of an id that no item has, at a later time than the last
\* change, has left a list of MaxItems items, one of them done, as it was
C23_Witness ==
  /\ LastDispatched("TOGGLE_ITEM")
  /\ last.id = AbsentId
  /\ Len(state.items) = MaxItems
  /\ \E i, j \in 1..Len(state.items) : state.items[i].done /\ ~state.items[j].done
  /\ state.updatedAt = clock
  /\ clock > 0

\* labels and icons of an ADD_ITEM: the icon empty or not
AddLabels == {<<"n">>, <<"n", " ", "2">>}

AddIcons == {"", "new icon"}

\* C24: in every state, ADD_ITEM of a label and an icon gives the items of the
\* state, each as it was, followed by one new item: its id is that of no item
\* of the state, its label the given label, done false, category "custom", its
\* icon the given icon or, when that is empty, the placeholder glyph, and its
\* order key 10 more than the largest order key of the state, or 10 when the
\* list is empty.
C24_AddItemAppends ==
  \A label \in AddLabels, icon \in AddIcons :
    LET added == reducer(state, Action("ADD_ITEM", NoId, 0, label, icon, "", NoTemplate),
                         clock, nextId)
        new   == added.items[Len(added.items)]
    IN  /\ Len(added.items) = Len(state.items) + 1
        /\ \A i \in 1..Len(state.items) : added.items[i] = state.items[i]
        /\ new.id \notin IdsOf(state.items)
        /\ new.label = label
        /\ new.done = FALSE
        /\ new.category = "custom"
        /\ new.icon = (IF icon = "" THEN PLACEHOLDER_ICON ELSE icon)
        /\ \A i \in 1..Len(state.items) : new.order >= state.items[i].order + 10
        /\ \/ new.order = 10
           \/ \E i \in 1..Len(state.items) : new.order = state.items[i].order + 10

\* an ADD_ITEM with an empty icon has appended an item with the placeholder
\* glyph to the item of a stored record, which is done
C24_Witness ==
  /\ LastDispatched("ADD_ITEM")
  /\ Len(state.items) = MaxItems
  /\ state.items[1].done
  /\ state.items[1].category = UNDEFINED
  /\ state.items[MaxItems].icon = PLACEHOLDER_ICON
  /\ state.items[MaxItems].category = "custom"
  /\ state.items[MaxItems].order = 10 * MaxItems
  /\ IdsOf(state.items) \cap StoredIds # {}

\* the position in items of the i-th item whose id is not id
KeptPosition(items, id, i) ==
  CHOOSE k \in 1..Len(items) :
    /\ items[k].id # id
    /\ Cardinality({m \in 1..k : items[m].id # id}) = i

\* C25: a DELETE_ITEM of an id that no item has leaves the items as they were:
\* the same items in the same sequence, each with its id, label, icon, done,
\* category and order; a DELETE_ITEM of an id that items have removes the items
\* with that id and keeps the others in the sequence they were in, each with
\* its id, label, icon, done and category.
C25_DeleteRemovesTheItemOnly ==
  [][last'.dispatched = <<"DELETE_ITEM">> /\ last'.handler = "dispatch"
       => /\ (last'.id \notin IdsOf(state.items)) => state'.items = state.items
          /\ Len(state'.items) = Len(state.items) - IdCount(state.items, last'.id)
          /\ \A i \in 1..Len(state'.items) :
               LET before == state.items[KeptPosition(state.items, last'.id, i)]
               IN  /\ state'.items[i].id = before.id
                   /\ state'.items[i].label = before.label
                   /\ state'.items[i].icon = before.icon
                   /\ state'.items[i].done = before.done
                   /\ state'.items[i].category = before.category]_vars

\* a DELETE_ITEM of an id that no item has has left a list of MaxItems items with
\* different ids, one of them done and one added in this run, as it was
C25_Witness ==
  /\ LastDispatched("DELETE_ITEM")
  /\ last.id = AbsentId
  /\ Len(state.items) = MaxItems
  /\ Cardinality(IdsOf(state.items)) = MaxItems
  /\ \E i \in 1..Len(state.items) : state.items[i].done
  /\ state.items[MaxItems].category = "custom"

\* C21: ids are never reused.  The ids the state has held, on items still in the
\* list, deleted since or discarded by an APPLY_TEMPLATE, are those of the stored
\* record the App started on and those createId() has returned: all are less
\* than nextId.  In every step, an id that is new in the list is one createId()
\* returns in that step, so it is none of those, and it is given to one item
\* only; an id that was in the list is on no more items than before, and the
\* items that have it keep the label, icon and category of an item that had it;
\* an action other than DELETE_ITEM and APPLY_TEMPLATE removes no id.
C21_IdsNeverReused ==
  [][/\ \A id \in IdsOf(state.items) : id < nextId
     /\ nextId' >= nextId
     /\ \A id \in IdsOf(state'.items) :
          IF id \in IdsOf(state.items)
          THEN /\ IdCount(state'.items, id) <= IdCount(state.items, id)
               /\ \A i \in 1..Len(state'.items) :
                    state'.items[i].id = id =>
                      \E j \in 1..Len(state.items) :
                        /\ state.items[j].id = id
                        /\ state.items[j].label = state'.items[i].label
                        /\ state.items[j].icon = state'.items[i].icon
                        /\ state.items[j].category = state'.items[i].category
          ELSE /\ id \in nextId..(nextId' - 1)
               /\ IdCount(state'.items, id) = 1
     /\ (last'.dispatched # <<>> /\ last'.dispatched # <<"DELETE_ITEM">>
          /\ last'.dispatched # <<"APPLY_TEMPLATE">>)
          => \A id \in IdsOf(state.items) :
               IdCount(state'.items, id) = IdCount(state.items, id)]_vars

\* a template has been applied a second time, after the items of the first one
\* were discarded: its item has the last id createId() gives
C21_Witness ==
  /\ last.handler = "applyTemplate"
  /\ ~last.template.isNull
  /\ Len(state.items) = 1
  /\ state.items[1].id = LastFreshId
  /\ nextId = LastFreshId + 1

\* C27: in every state, RESET_DONE gives the items of the state in the same
\* sequence, each with its id, label, icon, category and order and with done
\* false, and changes nothing else but updatedAt; RESET_DONE applied to the
\* result, at a later time, gives the same items again.
C27_ResetDoneIsIdempotent ==
  LET reset == Action("RESET_DONE", NoId, 0, <<>>, "", "", NoTemplate)
      once  == reducer(state, reset, clock, nextId)
      twice == reducer(once, reset, clock + 1, nextId)
  IN  /\ Len(once.items) = Len(state.items)
      /\ \A i \in 1..Len(state.items) :
           /\ once.items[i].id = state.items[i].id
           /\ once.items[i].label = state.items[i].label
           /\ once.items[i].icon = state.items[i].icon
           /\ once.items[i].category = state.items[i].category
           /\ once.items[i].order = state.items[i].order
           /\ once.items[i].done = FALSE
      /\ [once EXCEPT !.items = state.items, !.updatedAt = state.updatedAt] = state
      /\ twice.items = once.items

\* a RESET_DONE has acted on a list of an item of a stored record and an item
\* added in this run: no item is done
C27_Witness ==
  /\ LastDispatched("RESET_DONE")
  /\ Len(state.items) = MaxItems
  /\ \A i \in 1..Len(state.items) : ~state.items[i].done
  /\ state.items[1].category = UNDEFINED
  /\ state.items[MaxItems].category = "custom"

\* a and b are the same item but for the order key
SameButOrder(a, b) ==
  /\ a.id = b.id
  /\ a.label = b.label
  /\ a.icon = b.icon
  /\ a.done = b.done
  /\ a.category = b.category

\* C30: in every state, whose items are in ascending order of the order keys, a
\* MOVE_ITEM of id in direction d that moves (an item has the id, and the place
\* d from the first such item is in the list) exchanges the item at place p
\* with the one at p + d: the item of p is at p + d, the item of p + d is at p,
\* every other item is where it was, each with its id, label, icon, done and
\* category; the order keys are ascending again and updatedAt is the time of
\* the action.
C30_MoveItemSwapsNeighbours ==
  \A id \in IdsOf(state.items), d \in {-1, 1} :
    LET p     == Least({i \in 1..Len(state.items) : state.items[i].id = id})
        q     == p + d
        moved == reducer(state, Action("MOVE_ITEM", id, d, <<>>, "", "", NoTemplate),
                         clock, nextId)
    IN  /\ \A i, j \in 1..Len(state.items) :
             i < j => state.items[i].order < state.items[j].order
        /\ q \in 1..Len(state.items)
             => /\ Len(moved.items) = Len(state.items)
                /\ SameButOrder(moved.items[q], state.items[p])
                /\ SameButOrder(moved.items[p], state.items[q])
                /\ \A i \in 1..Len(state.items) \ {p, q} :
                     SameButOrder(moved.items[i], state.items[i])
                /\ \A i, j \in 1..Len(moved.items) :
                     i < j => moved.items[i].order < moved.items[j].order
                /\ moved.updatedAt = clock

\* a DELETE_ITEM has taken a stored item from a list to which an ADD_ITEM had
\* appended: the appended item is still there
AfterAddDeleteCycle ==
  /\ LastDispatched("DELETE_ITEM")
  /\ last.id \in StoredIds
  /\ last.id \notin IdsOf(state.items)
  /\ \E i \in 1..Len(state.items) :
       state.items[i].label \in AddLabels /\ state.items[i].id >= FirstFreshId

\* C32, as stated: cycles of ADD_ITEM and DELETE_ITEM, from a loaded state or
\* from one APPLY_TEMPLATE made, leave order keys that are not 10, 20, ...,
\* 10 * N.  Read of every such cycle: after a DELETE_ITEM that took an item from
\* before one that ADD_ITEM had appended, the keys in ascending order are not
\* 10, 20, ..., 10 * N.
C32_CyclesLeaveGaps ==
  AfterAddDeleteCycle => ~OrdersAreTenTimesPosition(state.items)

\* C32: order keys develop no gaps.  In every state, whether loaded, made by
\* APPLY_TEMPLATE or reached by any sequence of ADD_ITEM, DELETE_ITEM and the
\* other actions, the order keys in ascending order are exactly 10, 20, ...,
\* 10 * N, and the items are kept in that order: ADD_ITEM appends at the
\* largest key plus 10, and DELETE_ITEM, the load and APPLY_TEMPLATE renumber.
C32_OrderKeysStayContiguous ==
  /\ OrdersAreTenTimesPosition(state.items)
  /\ \A i \in 1..Len(state.items) : state.items[i].order = 10 * i

\* the item ADD_ITEM appended at key 20 is, after the DELETE_ITEM of the stored
\* item before it, the only item, at key 10
C32_Witness ==
  /\ AfterAddDeleteCycle
  /\ Len(state.items) = 1
  /\ state.items[1].order = 10

\* the actions the reducer can be given in s: those of the checklist screen and
\* the APPLY_TEMPLATE of each template of the catalog and of no template
ReducerActions(s) ==
  SpecActions(s) \cup
  {Action("APPLY_TEMPLATE", NoId, 0, <<>>, "", "", t) :
     t \in {NoTemplate} \cup {TEMPLATES[i] : i \in 1..Len(TEMPLATES)}}

\* C36: in every state the checklist screen is shown only when state.started
\* is true, and the way back from the template screen is offered only then;
\* and when state.started is true, the state the reducer returns for any
\* action has started true.
C36_ChecklistOnlyWhenStarted ==
  /\ screen = "checklist" => state.started
  /\ openedFromChecklist => (screen = "template" /\ state.started)
  /\ state.started
       => \A action \in ReducerActions(state) :
            reducer(state, action, clock, nextId).started

\* the checklist is shown again by the way back from the template screen, on a
\* list that has items
C36_Witness ==
  /\ last.handler = "returnToChecklist"
  /\ screen = "checklist"
  /\ ~openedFromChecklist
  /\ state.started
  /\ state.items # <<>>

\* C37: of the actions dispatched to the reducer, TOGGLE_ITEM, RESET_DONE,
\* UPDATE_META and MOVE_ITEM leave the set of the ids of the items and the
\* number of items as they were; ADD_ITEM makes the list one item longer;
\* DELETE_ITEM makes it one item shorter when an item has the id and leaves
\* its length when none has; UPDATE_META changes listTitle and updatedAt and
\* no other field of the state.
C37_OnlyAddDeleteApplyChangeTheItems ==
  [][last'.handler = "dispatch"
       => LET type == last'.dispatched[1]
          IN  /\ type \in {"TOGGLE_ITEM", "RESET_DONE", "UPDATE_META", "MOVE_ITEM"}
                   => /\ IdsOf(state'.items) = IdsOf(state.items)
                      /\ Len(state'.items) = Len(state.items)
              /\ type = "ADD_ITEM" => Len(state'.items) = Len(state.items) + 1
              /\ type = "DELETE_ITEM"
                   => Len(state'.items) =
                        Len(state.items) - (IF last'.id \in IdsOf(state.items) THEN 1 ELSE 0)
              /\ type = "UPDATE_META"
                   => state' = [state EXCEPT !.listTitle = state'.listTitle,
                                             !.updatedAt = state'.updatedAt]]_vars

(***************************************************************************)
(* Properties of the failing write, checked under SpecSetItemThrows.       *)
(***************************************************************************)
\* C18: when the write after a state change throws, the App goes on: it is still
\* mounted and shows the screen it showed.
C18_FailedWriteIsSwallowed ==
  [][last'.threw => (screen' # "unmounted" /\ screen' = screen)]_vars

(***************************************************************************)
(* Properties of startup, checked under SpecLoad.                          *)
(***************************************************************************)
\* the schema of the stored record: version 1, listTitle a string, updatedAt a
\* number, items an array of objects with id, label, icon strings, done a
\* boolean, order a number and category absent or a string
SchemaValid(raw) ==
  /\ raw.kind = "object"
  /\ raw.version = J("number", 1)
  /\ raw.listTitle.t = "string"
  /\ raw.updatedAt.t = "number"
  /\ raw.itemsIsArray
  /\ \A i \in 1..Len(raw.items) :
       /\ raw.items[i].truthy
       /\ {raw.items[i].id.t, raw.items[i].label.t, raw.items[i].icon.t} = {"string"}
       /\ raw.items[i].done.t = "boolean"
       /\ raw.items[i].order.t = "number"
       /\ raw.items[i].category.t \in {"undefined", "string"}

\* the App has just started on the stored value last.raw
StartedOn(valid) == last.handler = "init" /\ SchemaValid(last.raw) = valid

\* C14: on every stored value that is not a schema-valid record (nothing stored,
\* text that does not parse, a value that is no object, or a record that breaks
\* a rule of the schema) load returns null, and the App starts on the empty
\* state (not started, no template selected, no items, default title) on the
\* template screen.
C14_InvalidStoredIsAbsent ==
  StartedOn(FALSE) =>
    /\ ~loadStateSafely(last.raw).ok
    /\ state.version = 1
    /\ ~state.started
    /\ state.selectedTemplateId = NULL
    /\ state.listTitle = DEFAULT_LIST_TITLE
    /\ state.items = <<>>
    /\ screen = "template"

\* the App has started on a record of two items, the second with category null:
\* the state is empty, on the template screen
C14_Witness ==
  /\ StartedOn(FALSE)
  /\ last.raw.kind = "object"
  /\ Len(last.raw.items) = 2
  /\ last.raw.items[1] = LoadGoodRow
  /\ last.raw.items[2].category.t = "null"
  /\ state.items = <<>>
  /\ screen = "template"

\* C15: on every schema-valid record with neither started nor
\* selectedTemplateId, load returns a state with started true and
\* selectedTemplateId "none", and the App starts on the checklist screen.
C15_MigrationStartsChecklist ==
  (/\ StartedOn(TRUE)
   /\ last.raw.started.t = "undefined"
   /\ last.raw.selectedTemplateId.t = "undefined")
    => /\ loadStateSafely(last.raw).ok
       /\ state.started
       /\ state.selectedTemplateId = "none"
       /\ screen = "checklist"

\* the App has started on a record of MaxItems items without started and
\* selectedTemplateId and shows the checklist
C15_Witness ==
  /\ StartedOn(TRUE)
  /\ last.raw.started.t = "undefined"
  /\ last.raw.selectedTemplateId.t = "undefined"
  /\ Len(state.items) = MaxItems
  /\ screen = "checklist"
  /\ state.selectedTemplateId = "none"

\* C16, as stated: on every schema-valid record without selectedTemplateId load
\* returns selectedTemplateId "none", whatever the stored started; on every
\* schema-valid record without started load returns started true.
C16_AbsentTemplateIsNone ==
  StartedOn(TRUE) =>
    /\ last.raw.selectedTemplateId.t = "undefined" => state.selectedTemplateId = "none"
    /\ last.raw.started.t = "undefined" => state.started

\* C16: on every schema-valid record without selectedTemplateId load returns
\* selectedTemplateId "none" when the stored started is true or absent, and
\* null when the stored started is false; on every schema-valid record without
\* started load returns started true.
C16_AbsentTemplateFollowsStarted ==
  StartedOn(TRUE) =>
    /\ last.raw.selectedTemplateId.t = "undefined" =>
         state.selectedTemplateId =
           IF last.raw.started = J("boolean", FALSE) THEN NULL ELSE "none"
    /\ last.raw.started.t = "undefined" => state.started

\* the App has started on a record of MaxItems items with started false and
\* without selectedTemplateId: no template is selected, the template screen shows
C16_Witness ==
  /\ StartedOn(TRUE)
  /\ last.raw.selectedTemplateId.t = "undefined"
  /\ last.raw.started = J("boolean", FALSE)
  /\ state.selectedTemplateId = NULL
  /\ ~state.started
  /\ Len(state.items) = MaxItems
  /\ screen = "template"

\* the place of the k-th stored item among the loaded items: after the items of
\* smaller stored order, and after the items of the same order stored before it
LoadedPlace(rows, k) ==
  1 + Cardinality({j \in 1..Len(rows) :
                     \/ rows[j].order.v < rows[k].order.v
                     \/ rows[j].order.v = rows[k].order.v /\ j < k})

\* C17: on every schema-valid record of N items the loaded items are the N
\* stored items in ascending stored order, ties in the order they were stored
\* in, each with its stored id, label, icon, done and category, and with order
\* keys 10, 20, ..., 10 * N.
C17_LoadRenormalizes ==
  StartedOn(TRUE) =>
    /\ Len(state.items) = Len(last.raw.items)
    /\ \A k \in 1..Len(last.raw.items) :
         LET row   == last.raw.items[k]
             place == LoadedPlace(last.raw.items, k)
         IN  state.items[place] =
               [id |-> row.id.v, label |-> row.label.v, icon |-> row.icon.v,
                done |-> row.done.v, order |-> 10 * place,
                category |-> IF row.category.t = "undefined" THEN UNDEFINED
                             ELSE row.category.v]

\* the App has started on a record of two items stored with order keys 25 and
\* -5: the second stored item comes first, with order keys 10 and 20
C17_Witness ==
  /\ StartedOn(TRUE)
  /\ Len(last.raw.items) = 2
  /\ last.raw.items[1].order.v = 25
  /\ last.raw.items[2].order.v = -5
  /\ last.raw.items[1].id.v # last.raw.items[2].id.v
  /\ state.items[1].id = last.raw.items[2].id.v
  /\ state.items[1].order = 10
  /\ state.items[2].order = 20

(***************************************************************************)
(* Properties of the gesture handlers, checked under SpecGesture.          *)
(***************************************************************************)
GestureIsIdle ==
  /\ pointerDragRef = IdleSession
  /\ draggingId = NoId
  /\ ~isTrashNear
  /\ ~isTrashOver

\* C2: the click that follows a drag (a pointer session that reached Dragging
\* and ended by pointer-up or pointer-cancel, or a native drag that ended by
\* drop or dragend) dispatches no TOGGLE_ITEM and leaves every done flag as it
\* was, whether the timer that clears the flag ran before the click or not.
C2_ClickAfterDragNeverToggles ==
  [][(dragEnded /\ last'.handler = "click")
       => (last'.dispatched = <<>> /\ state'.items = state.items)]_vars

\* C3, as stated: every pointer-cancel dispatches no DELETE_ITEM, leaves the
\* items unchanged and leaves the session Idle.
C3_EveryCancelResets ==
  [][last'.handler = "pointercancel"
       => (/\ last'.dispatched = <<>>
           /\ state'.items = state.items
           /\ GestureIsIdle')]_vars

\* C3: every pointer-cancel dispatches no DELETE_ITEM and leaves the items
\* unchanged, wherever the pointer is; a pointer-cancel of the tracked session
\* (same pointerId, same item) leaves the session Idle, and any other
\* pointer-cancel leaves the session as it was.
C3_CancelNeverDeletes ==
  [][last'.handler = "pointercancel"
       => (/\ last'.dispatched = <<>>
           /\ state' = state
           /\ storage' = storage
           /\ IF last'.tracked
              THEN GestureIsIdle'
              ELSE UNCHANGED <<pointerDragRef, draggingId, isTrashNear, isTrashOver>>)]_vars

\* a pointer-cancel has ended a tracked session that was Dragging, with the
\* pointer in the delete target, and both items are still there
C3_Witness ==
  /\ last.handler = "pointercancel"
  /\ last.tracked
  /\ last.over
  /\ dragEnded
  /\ suppressNextClickRef
  /\ GestureIsIdle
  /\ Len(state.items) = 2

\* the point is more than 10 from where the session started
MovedMoreThanTen(session, p) ==
  (p.x - session.startX) * (p.x - session.startX)
    + (p.y - session.startY) * (p.y - session.startY) > 10 * 10

\* items with done flipped on the items that have id
WithToggled(items, id) ==
  [i \in 1..Len(items) |->
     IF items[i].id = id THEN [items[i] EXCEPT !.done = ~items[i].done] ELSE items[i]]

\* C11: a pointer-move of the tracked pointer on item A to more than 10 from
\* the start of a session that is not yet Dragging makes A the dragged item; a
\* pointer-up outside the delete target dispatches no DELETE_ITEM and leaves the
\* items as they are; the click on A that comes directly after the pointer-up
\* of that Dragging session dispatches no TOGGLE_ITEM and leaves the state as
\* it is.
C11_FailedTouchDrag ==
  [][/\ (/\ last'.handler = "pointermove"
         /\ pointerDragRef.pointerId = last'.pointerId
         /\ pointerDragRef.id = last'.id
         /\ ~pointerDragRef.dragging
         /\ MovedMoreThanTen(pointerDragRef, last'.point))
          => (draggingId' = last'.id /\ pointerDragRef'.dragging)
     /\ (last'.handler = "pointerup" /\ ~last'.over)
          => (last'.dispatched = <<>> /\ state' = state)
     /\ (/\ last.handler = "pointerup" /\ last.tracked /\ last.dragging /\ ~last.over
         /\ last'.handler = "click" /\ last'.id = last.id)
          => (last'.dispatched = <<>> /\ state' = state)]_vars

\* a click on item 1, not done, directly after the pointer-up that ended a drag
\* of item 1 outside the delete target, has dispatched nothing: both items are
\* there and item 1 is not done
C11_Witness ==
  /\ last.handler = "click"
  /\ last.afterDrag
  /\ last.id = 1
  /\ last.dispatched = <<>>
  /\ Len(state.items) = 2
  /\ \E i \in 1..Len(state.items) : state.items[i].id = 1 /\ ~state.items[i].done
  /\ state.updatedAt = 0

\* C12: a click on an item when the flag is clear dispatches one TOGGLE_ITEM of
\* that item (done flips on that item, the other items are as before) and
\* leaves the flag clear; a click when the flag is set dispatches nothing,
\* leaves the state as it is and clears the flag.
C12_ClickTogglesUnlessSuppressed ==
  [][last'.handler = "click"
       => IF suppressNextClickRef
          THEN /\ last'.dispatched = <<>>
               /\ state' = state
               /\ ~suppressNextClickRef'
          ELSE /\ last'.dispatched = <<"TOGGLE_ITEM">>
               /\ state'.items = WithToggled(state.items, last'.id)
               /\ ~suppressNextClickRef']_vars

\* a click has been consumed while a drag of a pointer session goes on: the
\* flag is clear again
C12_Witness ==
  /\ last.handler = "click"
  /\ last.dispatched = <<>>
  /\ ~suppressNextClickRef
  /\ pointerDragRef.dragging
  /\ timers = 0

\* C13: a pointer-move, pointer-up or pointer-cancel whose pointerId or item is
\* not that of the tracked session (or that comes when no session is tracked)
\* leaves the session, draggingId, the near and over flags, the suppression
\* flag, the pending timers, the state and the stored record as they are.
C13_StaleEventsIgnored ==
  [][(/\ last'.handler \in {"pointermove", "pointerup", "pointercancel"}
      /\ (pointerDragRef.pointerId # last'.pointerId \/ pointerDragRef.id # last'.id))
       => UNCHANGED <<pointerDragRef, draggingId, isTrashNear, isTrashOver,
                      suppressNextClickRef, timers, state, storage>>]_vars

\* a pointer-up of the tracked pointer on another item, in the delete target,
\* has come while the session drags: the session still drags
C13_Witness ==
  /\ last.handler = "pointerup"
  /\ last.pointerId = pointerDragRef.pointerId
  /\ last.id # pointerDragRef.id
  /\ last.over
  /\ pointerDragRef.dragging
  /\ draggingId = pointerDragRef.id
  /\ Len(state.items) = 2

\* C22: in every state of the gesture handlers, isTrashOver is true only when
\* isTrashNear is true.
C22_OverImpliesNear == isTrashOver => isTrashNear

\* a pointer of a Dragging session has moved onto the edge of the delete target
C22_Witness ==
  /\ last.handler = "pointermove"
  /\ last.tracked
  /\ last.dragging
  /\ last.point = Point(TrashRect.left, TrashRect.top)
  /\ isTrashOver
  /\ isTrashNear

\* the point is in the rectangle of the delete target, its edge included
InDeleteTarget(p) ==
  /\ p.x \in TrashRect.left..TrashRect.right
  /\ p.y \in TrashRect.top..TrashRect.bottom

\* C28: a pointer-up of the tracked session (same pointer, same item).  While
\* the session is Dragging: when the point is in the rectangle of the delete
\* target one DELETE_ITEM is dispatched and the items with the session's id are
\* gone, otherwise nothing is dispatched and the state is as it was; either way
\* suppressNextClickRef is true, one more timer is pending, and the session,
\* draggingId and both flags have their Idle values.  While the session is only
\* Armed: nothing is dispatched, the state, suppressNextClickRef and the timers
\* are as they were, and the session is reset.
C28_PointerUpEndsTheSession ==
  [][(/\ last'.handler = "pointerup"
      /\ pointerDragRef.pointerId = last'.pointerId
      /\ pointerDragRef.id = last'.id)
       => /\ GestureIsIdle'
          /\ IF pointerDragRef.dragging
             THEN /\ suppressNextClickRef'
                  /\ timers' = timers + 1
                  /\ IF InDeleteTarget(last'.point)
                     THEN /\ last'.dispatched = <<"DELETE_ITEM">>
                          /\ IdsOf(state'.items) = IdsOf(state.items) \ {pointerDragRef.id}
                          /\ Len(state'.items) =
                               Len(state.items) - IdCount(state.items, pointerDragRef.id)
                     ELSE /\ last'.dispatched = <<>>
                          /\ state' = state
             ELSE /\ last'.dispatched = <<>>
                  /\ state' = state
                  /\ suppressNextClickRef' = suppressNextClickRef
                  /\ timers' = timers]_vars

\* a pointer-up of the tracked session, Dragging, on the edge of the delete
\* target has deleted the session's item: one item is left, the flag is set, a
\* timer is pending and the session is Idle
C28_Witness ==
  /\ last.handler = "pointerup"
  /\ last.tracked
  /\ last.dragging
  /\ last.point = Point(TrashRect.left, TrashRect.top)
  /\ last.dispatched = <<"DELETE_ITEM">>
  /\ last.id \notin IdsOf(state.items)
  /\ Len(state.items) = 1
  /\ suppressNextClickRef
  /\ timers = 1
  /\ GestureIsIdle

\* C29: the native drag.  A drag-start sets suppressNextClickRef, makes its item
\* the dragged item and clears both flags; a drop on the delete target
\* dispatches one DELETE_ITEM, after which no item has the id of the item the
\* drag started on, and resets the drag state; a drag-end resets the drag state
\* and schedules one timer; a timer callback leaves suppressNextClickRef false,
\* so that after a drag-end and its timer callback the session is Idle and the
\* flag is clear.
C29_NativeDrag ==
  [][/\ last'.handler = "dragstart"
          => /\ suppressNextClickRef'
             /\ draggingId' = last'.id
             /\ dnd'.data = last'.id
             /\ ~isTrashNear' /\ ~isTrashOver'
     /\ last'.handler = "drop"
          => /\ last'.dispatched = <<"DELETE_ITEM">>
             /\ IdsOf(state'.items) = IdsOf(state.items) \ {dnd.data}
             /\ GestureIsIdle'
     /\ last'.handler = "dragend"
          => /\ GestureIsIdle'
             /\ timers' = timers + 1
     /\ last'.handler = "timer" => ~suppressNextClickRef'
     /\ (last.handler = "dragend" /\ last'.handler = "timer")
          => (GestureIsIdle' /\ ~suppressNextClickRef')]_vars

\* a native drag that ended in a drop has deleted an item, and the timer of its
\* drag-end has run: the session is Idle and the flag is clear
C29_Witness ==
  /\ last.handler = "timer"
  /\ dragEnded
  /\ dnd = NoDrag
  /\ timers = 0
  /\ Len(state.items) = 1
  /\ GestureIsIdle
  /\ ~suppressNextClickRef

\* C31: a pointer-move of the tracked pointer on a session that is Armed makes
\* the session Dragging (its item the dragged item, suppressNextClickRef set)
\* when the point is more than 10 from the start point; at 10 or less it leaves
\* the session Armed and suppressNextClickRef, draggingId and both flags as
\* they were.  A press and a release that stay within 10 therefore leave
\* suppressNextClickRef as it was at the press, and the click that follows
\* them while it is clear dispatches one TOGGLE_ITEM of its item.
C31_ThresholdIsStrict ==
  [][/\ (/\ last'.handler = "pointermove"
         /\ pointerDragRef.pointerId = last'.pointerId
         /\ pointerDragRef.id = last'.id
         /\ ~pointerDragRef.dragging)
          => IF MovedMoreThanTen(pointerDragRef, last'.point)
             THEN /\ pointerDragRef' = [pointerDragRef EXCEPT !.dragging = TRUE]
                  /\ draggingId' = last'.id
                  /\ suppressNextClickRef'
             ELSE UNCHANGED <<pointerDragRef, draggingId, suppressNextClickRef,
                              isTrashNear, isTrashOver>>
     /\ (/\ last'.handler \in {"pointerdown", "pointerup"}
         /\ last'.tracked
         /\ ~last'.dragging)
          => UNCHANGED suppressNextClickRef
     /\ (/\ last.handler = "pointerup" /\ last.tracked /\ ~last.dragging
         /\ ~suppressNextClickRef
         /\ last'.handler = "click")
          => (/\ last'.dispatched = <<"TOGGLE_ITEM">>
              /\ state'.items = WithToggled(state.items, last'.id))]_vars

\* the tracked pointer of an Armed session has moved to exactly 10 from the
\* start point: the session is still Armed and nothing is dragged
C31_Witness ==
  /\ last.handler = "pointermove"
  /\ last.tracked
  /\ ~last.dragging
  /\ (last.point.x - pointerDragRef.startX) * (last.point.x - pointerDragRef.startX)
       + (last.point.y - pointerDragRef.startY) * (last.point.y - pointerDragRef.startY)
     = 100
  /\ ~pointerDragRef.dragging
  /\ draggingId = NoId
  /\ ~suppressNextClickRef

\* C33: in every state in which no session is tracked, nothing is dragged, no
\* native drag is in progress and no timer is pending, suppressNextClickRef is
\* false, so that the click of a tap made then toggles its item; also after a
\* second pointer-down of a pointer that is not a mouse has come while the
\* session of another pointer was Dragging.
C33_NoStuckSuppression ==
  (GestureIsIdle /\ dnd.phase = "none" /\ timers = 0) => ~suppressNextClickRef

\* C34: while a drag is in progress (the pointer session is Dragging, or a
\* native drag has started and its drag-end has not come) suppressNextClickRef
\* is true, also after the timer that the end of an earlier gesture scheduled
\* has run during the drag, and after a click during the drag.
C34_SuppressedWhileDragging ==
  (pointerDragRef.dragging \/ dnd.phase # "none") => suppressNextClickRef

\* the items after the step are items less those that have id
Without(items, id) ==
  /\ IdsOf(state'.items) = IdsOf(items) \ {id}
  /\ Len(state'.items) = Len(items) - IdCount(items, id)

C38_DraggingIsSticky ==
  [][pointerDragRef.dragging
       => /\ last'.handler = "pointermove"
               => /\ pointerDragRef' = pointerDragRef
                  /\ draggingId' = draggingId
                  /\ suppressNextClickRef' = suppressNextClickRef
          /\ ~pointerDragRef'.dragging
               => /\ last'.handler \in {"pointerup", "pointercancel"}
                  /\ last'.tracked
                  /\ last'.pointerId = pointerDragRef.pointerId
                  /\ last'.id = pointerDragRef.id]_vars

\* C39: in every state of the gesture handlers, isTrashNear or isTrashOver is
\* true only when draggingId is not null; and the handler of a pointer-up or a
\* pointer-cancel of the tracked session, of a drop and of a drag-end leaves
\* draggingId null and both flags false.
C39_AffordanceImpliesDrag ==
  /\ (isTrashNear \/ isTrashOver) => draggingId # NoId
  /\ (\/ last.handler \in {"pointerup", "pointercancel"} /\ last.tracked
      \/ last.handler \in {"drop", "dragend"})
       => (draggingId = NoId /\ ~isTrashNear /\ ~isTrashOver)

\* a native drag is over the delete target: both flags are set and the dragged
\* item is the item of the drag-start
C39_Witness ==
  /\ last.handler = "dragover"
  /\ dnd.phase = "drag"
  /\ isTrashNear
  /\ isTrashOver
  /\ draggingId = dnd.data
  /\ draggingId # NoId

(***************************************************************************)
(* Properties of APPLY_TEMPLATE, checked under SpecTemplate.               *)
(***************************************************************************)
\* what labels are compared by: the trimmed label, case folded
KeyOf(label) == toLocaleLowerCase(trim(label))

\* the distinct trimmed non-empty labels of entries
TemplateKeys(entries) == {KeyOf(entries[i].label) : i \in 1..Len(entries)} \ {<<>>}

\* the position of the first entry with this label
FirstWith(entries, key) == Least({i \in 1..Len(entries) : KeyOf(entries[i].label) = key})

\* C9: after APPLY_TEMPLATE of a template, each distinct trimmed non-empty label
\* of the template, compared without case, is on exactly one item; every item
\* has the trimmed label, the icon (the placeholder when the emoji is empty)
\* and the category of the first entry with its label; no item has an empty
\* label; the items are in the order of those first entries.
C9_TemplateDeduplicatesByLabel ==
  (last.handler = "applyTemplate" /\ ~last.template.isNull) =>
    LET entries == last.template.items
        items   == state.items
    IN  /\ \A key \in TemplateKeys(entries) :
             Cardinality({j \in 1..Len(items) : KeyOf(items[j].label) = key}) = 1
        /\ \A j \in 1..Len(items) :
             /\ KeyOf(items[j].label) \in TemplateKeys(entries)
             /\ LET first == entries[FirstWith(entries, KeyOf(items[j].label))]
                IN  /\ items[j].label = trim(first.label)
                    /\ items[j].icon = IF first.emoji = "" THEN PLACEHOLDER_ICON
                                       ELSE first.emoji
                    /\ items[j].category = first.category
        /\ \A j, k \in 1..Len(items) :
             j < k => FirstWith(entries, KeyOf(items[j].label))
                        < FirstWith(entries, KeyOf(items[k].label))

\* a template of a blank label and two spellings of one label, with two emoji,
\* has given one item
C9_Witness ==
  /\ last.handler = "applyTemplate"
  /\ Len(state.items) = 1
  /\ LET entries == last.template.items
     IN  /\ \E i \in 1..Len(entries) : trim(entries[i].label) = <<>>
         /\ \E i, j \in 1..Len(entries) :
              /\ i < j
              /\ entries[i].label # entries[j].label
              /\ KeyOf(entries[i].label) = KeyOf(entries[j].label)
              /\ KeyOf(entries[i].label) # <<>>
              /\ entries[i].emoji # entries[j].emoji

\* what C10 says of every APPLY_TEMPLATE but for listTitle
ReplacesWholesale ==
  LET t == last'.template
  IN  /\ state'.started
      /\ state'.selectedTemplateId = IF t.isNull THEN "none" ELSE t.id
      /\ Len(state'.items) = Cardinality(TemplateKeys(t.items))
      /\ \A j \in 1..Len(state'.items) :
           /\ ~state'.items[j].done
           /\ state'.items[j].order = 10 * j
           /\ state'.items[j].id \notin IdsOf(state.items)
           /\ state'.items[j].id >= nextId
           /\ \A k \in 1..Len(state'.items) :
                j # k => state'.items[j].id # state'.items[k].id

\* C10, as stated: after APPLY_TEMPLATE of t, from any state, started is true,
\* selectedTemplateId is t.id ("none" for null), listTitle is t.name (the
\* default title for null), no item of the state before remains, every item is
\* not done and has a fresh id, and the order keys are 10, 20, ..., 10 * K, K the
\* number of distinct labels of t.
C10_TitleIsTemplateName ==
  [][last'.handler = "applyTemplate"
       => (/\ ReplacesWholesale
           /\ state'.listTitle = IF last'.template.isNull THEN DEFAULT_LIST_TITLE
                                 ELSE last'.template.name)]_vars

\* C10: after APPLY_TEMPLATE of t, from any state, started is true,
\* selectedTemplateId is t.id ("none" for null), listTitle is t.name when t has
\* a name that is not empty and the default title when t is null or its name
\* is empty, no item of the state before remains, every item is not done and
\* has a fresh id, and the order keys are 10, 20, ..., 10 * K, K the number of
\* distinct labels of t.
C10_ApplyTemplateReplaces ==
  [][last'.handler = "applyTemplate"
       => (/\ ReplacesWholesale
           /\ state'.listTitle =
                IF last'.template.isNull \/ last'.template.name = ""
                THEN DEFAULT_LIST_TITLE
                ELSE last'.template.name)]_vars

\* a template with an empty name has replaced a list made by an earlier
\* APPLY_TEMPLATE: two items, with ids later than the first id of this run
C10_Witness ==
  /\ last.handler = "applyTemplate"
  /\ ~last.template.isNull
  /\ last.template.name = ""
  /\ Len(state.items) = 2
  /\ state.items[1].id > FirstFreshId
  /\ state.listTitle = DEFAULT_LIST_TITLE

====
